---- MODULE Spec2Model ----
(***************************************************************************)
(* Asset ledger of the asset-management backend (backend/app/crud.py and   *)
(* backend/app/routers/assets.py): assets, the append-only asset event     *)
(* log, and the create / assign / return / update operations, each run in  *)
(* one SQLAlchemy session (one database transaction).                      *)
(*                                                                         *)
(* Spec       : requests run one after the other; every handler is one    *)
(*              step (create, assign, return, update).                     *)
(* SpecLedger : the same without update, over a longer run.                *)
(* SpecSeats  : the same again, every asset created unused.                *)
(* SpecPatch  : create and update only, the payloads at their widest.     *)
(* SpecCatalog: crud.create_asset over several tags and organizations.    *)
(* SpecUsers  : the handlers of Spec and the two that take a user out of   *)
(*              service (deactivate_user, leave_organization).             *)
(* SpecRead   : the asset handlers and the read paths of the ledger        *)
(*              (list_asset_events, get_user_assets).                      *)
(* SpecSummary: create, assign, leave_organization and the audit summary   *)
(*              asked for at any later time.                               *)
(* SpecConc   : sessions interleave. A session reads the asset row with   *)
(*              db.get (a plain SELECT, no FOR UPDATE), changes the loaded *)
(*              object in memory and later flushes the changed columns and *)
(*              the new event in db.commit().                              *)
(* SpecAdmin  : create, assign and return by an ADMIN or MANAGER, and the  *)
(*              handlers that deactivate and activate an account.          *)
(* SpecRoles  : the same accounts with change_user_role.                   *)
(* SpecRequests: asset requests (routers/asset_requests.py): created,      *)
(*              approved with or without an assignment, denied.            *)
(* SpecUserRequests: user requests (routers/user_requests.py): a MANAGER   *)
(*              asks, the target ADMIN approves or denies.                 *)
(* SpecViews  : list_assets, get_asset and get_asset_events as every role  *)
(*              sees them.                                                 *)
(* SpecRateLimit: the rate limit middleware of main.py.                    *)
(***************************************************************************)
EXTENDS Integers, Sequences, FiniteSets, TLC

\* ------------------------------------------------------------------ bounds
NumUsers       == 2   \* rows of the users table
NumLocations   == 1   \* rows of the locations table
MaxSeats       == 2   \* largest seats_total a create / update payload carries
MaxClock       == 2   \* committed transactions in a behaviour of Spec
MaxLedgerClock == 5   \* committed transactions in a behaviour of SpecLedger
MaxConcClock   == 3   \* committed transactions in a behaviour of SpecConc
MaxPatchClock  == 2   \* committed transactions in a behaviour of SpecPatch
NumOrgs        == 1   \* rows of the organizations table
NumProcs       == 2   \* concurrent sessions of SpecConc
MaxUsersClock  == 4   \* committed transactions in a behaviour of SpecUsers
MaxReadClock   == 3   \* committed transactions in a behaviour of SpecRead
MaxSeatsClock  == 4   \* committed transactions in a behaviour of SpecSeats
MaxSummaryClock == 3  \* committed transactions in a behaviour of SpecSummary
DayTicks       == 2   \* ticks of the clock in one day
MaxAdminClock  == 4   \* committed transactions in a behaviour of SpecAdmin
MaxRolesClock  == 3   \* committed transactions in a behaviour of SpecRoles
MaxRequestsClock == 2 \* committed transactions in a behaviour of SpecRequests
MaxAssetRequests == 1 \* rows of the asset_requests table
MaxUserRequests == 1  \* rows of the user_requests table
MaxViewsClock  == 3   \* committed transactions in a behaviour of SpecViews
MaxTime        == 3   \* readings of time() in a behaviour of SpecRateLimit
MaxServed      == 5   \* requests in a behaviour of SpecRateLimit
\* The two settings of the rate limit (main.py reads them from the
\* environment, 120 and 60 when unset), at small values.
RATE_LIMIT_REQUESTS       == 2
RATE_LIMIT_WINDOW_SECONDS == 2

\* One asset row is modelled: create / assign / return / update read and
\* write the row they are called for and append events for it, nothing else.
AssetIds == {1}
CatalogIds == {1, 2}

\* None of Python / NULL of SQL, for the integer-valued columns, and None
\* for an optional string argument.
NULL == 0 - 1
NoneStr == "None"

AssetType   == {"HARDWARE", "SOFTWARE"}
AssetStatus == {"IN_STOCK", "ASSIGNED", "IN_REPAIR", "RETIRED"}
AssetCondition == {"NEW", "GOOD", "FAIR", "DAMAGED"}

VARIABLES
    asset_requests, \* committed rows of asset_requests, in id order
    user_requests,  \* committed rows of user_requests, in id order
    rate_limit_store, \* main.py _rate_limit_store: client ip -> (count, window_start)
    served,     \* the requests the middleware has answered, oldest first
    users,      \* ids of the rows of the users table
    accounts,   \* the rows of the users table: id -> organization, role, is_active, email
    user_events,\* committed rows of user_events, in id order
    locations,  \* ids of the rows of the locations table
    assets,     \* committed rows of the assets table: id -> row
    events,     \* committed rows of asset_events, in id order
    clock,      \* utcnow(), counted in committed transactions
    sess,       \* per session: the unit of work between db.get and db.commit
    last        \* the last finished call: its arguments, the row it read, its outcome

vars == <<asset_requests, user_requests, rate_limit_store, served,
          users, accounts, user_events, locations, assets, events, clock, sess, last>>

\* ------------------------------------------------------------- row helpers
\* db.get(models.Asset, asset_id) when no such row exists.
NoAsset == [exists |-> FALSE]

Get(rows, asset_id) == IF asset_id \in DOMAIN rows THEN rows[asset_id] ELSE NoAsset

\* Python's `x or 0` on an Optional[int].
OrZero(x) == IF x = NULL THEN 0 ELSE x

\* The columns of the loaded object whose value differs from the loaded row:
\* what the unit of work puts in the UPDATE statement.
Dirty(row, obj) == [f \in {g \in DOMAIN row : obj[g] # row[g]} |-> obj[f]]

\* UPDATE assets SET <writes>, updated_at = now WHERE id = ...
ApplyWrites(row, writes, now) ==
    IF DOMAIN writes = {} THEN row
    ELSE [f \in DOMAIN row |->
            IF f = "updated_at" THEN now
            ELSE IF f \in DOMAIN writes THEN writes[f] ELSE row[f]]

AssetEvent(asset_id, event_type, from_user_id, to_user_id, from_location_id, to_location_id) ==
    [asset_id |-> asset_id, event_type |-> event_type,
     from_user_id |-> from_user_id, to_user_id |-> to_user_id,
     from_location_id |-> from_location_id, to_location_id |-> to_location_id,
     timestamp |-> NULL]

\* The outcome of a handler body up to its db.commit(): the error it raised
\* (all are ValueError in the code; the kind names the message) or "ok" with
\* the changed object and the events added to the session.
Raise(kind, asset) == [result |-> kind, obj |-> asset, evs |-> <<>>, commit |-> FALSE]
Ok(obj, evs) == [result |-> "ok", obj |-> obj, evs |-> evs, commit |-> TRUE]

\* ------------------------------------------------------------ crud.py
\* models.Asset(...) in create_asset: category is kept only for HARDWARE,
\* subscription only for SOFTWARE; the seats are copied for either type;
\* assigned_to_user_id is not copied from the payload.
NewAsset(payload, organization_id) ==
    [asset_tag |-> payload.asset_tag,
     organization_id |-> organization_id,
     asset_type |-> payload.asset_type,
     category |-> IF payload.asset_type = "HARDWARE" THEN payload.category ELSE NoneStr,
     subscription |-> IF payload.asset_type = "SOFTWARE" THEN payload.subscription ELSE NoneStr,
     status |-> payload.status,
     seats_total |-> payload.seats_total,
     seats_used |-> payload.seats_used,
     assigned_to_user_id |-> NULL,
     location_id |-> payload.location_id,
     condition |-> payload.condition,
     updated_at |-> NULL]

\* select(Asset.id).where(Asset.asset_tag == payload.asset_tag, org_filter)
existing_tag(db_assets, asset_tag, organization_id) ==
    \E i \in DOMAIN db_assets :
        /\ db_assets[i].asset_tag = asset_tag
        /\ db_assets[i].organization_id = organization_id

\* Mutant: the asset is stored without its CREATE event.
create_asset_unlogged(db_assets, payload, organization_id, id) ==
    IF existing_tag(db_assets, payload.asset_tag, organization_id)
    THEN Raise("DuplicateKeyError", NoAsset)
    ELSE Ok(NewAsset(payload, organization_id), <<>>)

\* create_asset, up to its db.commit(): "Asset tag already exists" when a
\* row of the same organization scope (None is a scope of its own) has the
\* tag; else the new row and its CREATE event.
create_asset(db_assets, payload, organization_id, id) ==
    IF existing_tag(db_assets, payload.asset_tag, organization_id)
    THEN Raise("DuplicateKeyError", NoAsset)
    ELSE Ok(NewAsset(payload, organization_id),
            <<AssetEvent(id, "CREATE", NULL, NULL, NULL, NULL)>>)

\* assign_asset, SOFTWARE branch: a seat is taken unless seats_total > 0 and
\* every seat is in use (`asset.seats_total or 0`: 0 and None read alike).
assign_software(asset, asset_id, user_id) ==
    LET seats_total == OrZero(asset.seats_total)
        seats_used  == OrZero(asset.seats_used)
    IN  IF seats_total > 0 /\ seats_used >= seats_total
        THEN Raise("CapacityError", asset)
        ELSE Ok([asset EXCEPT !.seats_used = seats_used + 1, !.status = "ASSIGNED"],
                <<AssetEvent(asset_id, "ASSIGN", NULL, user_id, NULL, NULL)>>)

\* Mutant: assigning to the current assignee again is accepted.
assign_hardware_same_user_ok(asset, asset_id, user_id) ==
    IF asset.assigned_to_user_id # NULL /\ asset.assigned_to_user_id # user_id
    THEN Raise("ConflictError", asset)
    ELSE Ok([asset EXCEPT !.assigned_to_user_id = user_id, !.status = "ASSIGNED"],
            <<AssetEvent(asset_id, "ASSIGN", NULL, user_id, NULL, NULL)>>)

\* Mutant: the assignee is recorded, the status is left as it was.
assign_hardware_keeps_status(asset, asset_id, user_id) ==
    IF asset.assigned_to_user_id # NULL
    THEN Raise("ConflictError", asset)
    ELSE Ok([asset EXCEPT !.assigned_to_user_id = user_id],
            <<AssetEvent(asset_id, "ASSIGN", NULL, user_id, NULL, NULL)>>)

\* assign_asset, HARDWARE branch: a single assignee.
assign_hardware(asset, asset_id, user_id) ==
    IF asset.assigned_to_user_id # NULL
    THEN Raise("ConflictError", asset)
    ELSE Ok([asset EXCEPT !.assigned_to_user_id = user_id, !.status = "ASSIGNED"],
            <<AssetEvent(asset_id, "ASSIGN", NULL, user_id, NULL, NULL)>>)

\* Mutant: the RETIRED check is missing.
assign_asset_no_retired_check(db_assets, db_users, asset_id, user_id) ==
    LET asset == Get(db_assets, asset_id) IN
    IF asset = NoAsset THEN Raise("NotFoundError", asset)
    ELSE IF user_id \notin db_users THEN Raise("NotFoundError", asset)
    ELSE IF asset.asset_type = "SOFTWARE" THEN assign_software(asset, asset_id, user_id)
    ELSE assign_hardware(asset, asset_id, user_id)

\* assign_asset, up to its db.commit(): "Asset not found", "Cannot assign a
\* retired asset.", "User not found", then the branch of the asset's type.
assign_asset(db_assets, db_users, asset_id, user_id) ==
    LET asset == Get(db_assets, asset_id) IN
    IF asset = NoAsset THEN Raise("NotFoundError", asset)
    ELSE IF asset.status = "RETIRED" THEN Raise("InvalidTransitionError", asset)
    ELSE IF user_id \notin db_users THEN Raise("NotFoundError", asset)
    ELSE IF asset.asset_type = "SOFTWARE" THEN assign_software(asset, asset_id, user_id)
    ELSE assign_hardware(asset, asset_id, user_id)

\* Mutant: every return puts the asset back in stock.
return_software_resets_status(asset, asset_id, user_id) ==
    LET seats_used == OrZero(asset.seats_used) IN
    IF seats_used <= 0
    THEN Raise("CapacityError", asset)
    ELSE Ok([asset EXCEPT !.seats_used = seats_used - 1, !.status = "IN_STOCK"],
            <<AssetEvent(asset_id, "RETURN", user_id, NULL, NULL, NULL)>>)

\* return_asset, SOFTWARE branch: "No seats are currently in use." or one
\* seat given back; IN_STOCK only when none is left in use.
return_software(asset, asset_id, user_id) ==
    LET seats_used == OrZero(asset.seats_used) IN
    IF seats_used <= 0
    THEN Raise("CapacityError", asset)
    ELSE Ok([asset EXCEPT !.seats_used = seats_used - 1,
                          !.status = IF seats_used - 1 = 0 THEN "IN_STOCK" ELSE @],
            <<AssetEvent(asset_id, "RETURN", user_id, NULL, NULL, NULL)>>)

\* Mutant: the assignee is not cleared.
return_hardware_keeps_assignee(asset, asset_id, condition) ==
    Ok([asset EXCEPT !.status = "IN_STOCK"],
       <<AssetEvent(asset_id, "RETURN", asset.assigned_to_user_id, NULL, NULL, NULL)>>)

\* Mutant: a return with nothing to return is refused, as on the SOFTWARE side.
return_hardware_rejects_unassigned(asset, asset_id, condition) ==
    IF asset.assigned_to_user_id = NULL
    THEN Raise("ConflictError", asset)
    ELSE Ok([asset EXCEPT !.assigned_to_user_id = NULL, !.status = "IN_STOCK"],
            <<AssetEvent(asset_id, "RETURN", asset.assigned_to_user_id, NULL, NULL, NULL)>>)

\* return_asset, HARDWARE branch: clears the assignee whatever it was; a
\* condition that names no AssetCondition is ignored.
return_hardware(asset, asset_id, condition) ==
    LET previous_user_id == asset.assigned_to_user_id IN
    Ok([asset EXCEPT !.assigned_to_user_id = NULL,
                     !.status = "IN_STOCK",
                     !.condition = IF condition # NoneStr /\ condition \in AssetCondition
                                   THEN condition ELSE @],
       <<AssetEvent(asset_id, "RETURN", previous_user_id, NULL, NULL, NULL)>>)

\* return_asset, up to its db.commit(). condition is None when the caller
\* passes none (no router passes one).
return_asset(db_assets, asset_id, user_id, condition) ==
    LET asset == Get(db_assets, asset_id) IN
    IF asset = NoAsset THEN Raise("NotFoundError", asset)
    ELSE IF asset.asset_type = "SOFTWARE" THEN return_software(asset, asset_id, user_id)
    ELSE return_hardware(asset, asset_id, condition)

\* Mutant: an UPDATE event is written for every non-empty payload.
update_asset_always_audits(asset, asset_id, data) ==
    LET changed == {k \in DOMAIN data : asset[k] # data[k]}
        obj == [f \in DOMAIN asset |-> IF f \in changed THEN data[f] ELSE asset[f]]
    IN  IF DOMAIN data = {}
        THEN [result |-> "ok", obj |-> asset, evs |-> <<>>, commit |-> FALSE]
        ELSE Ok(obj, <<AssetEvent(asset_id, "UPDATE", NULL, NULL, NULL, NULL)>>)

\* Mutant: a changed location_id is folded into the UPDATE event.
update_asset_folds_move(asset, asset_id, data) ==
    LET changed == {k \in DOMAIN data : asset[k] # data[k]}
        obj == [f \in DOMAIN asset |-> IF f \in changed THEN data[f] ELSE asset[f]]
    IN  IF changed = {}
        THEN [result |-> "ok", obj |-> asset, evs |-> <<>>, commit |-> FALSE]
        ELSE Ok(obj, <<AssetEvent(asset_id, "UPDATE", NULL, NULL, NULL, NULL)>>)

\* Mutant: one UPDATE event for each changed field.
update_asset_event_per_field(asset, asset_id, data) ==
    LET changed == {k \in DOMAIN data : asset[k] # data[k]}
        location_change == "location_id" \in changed
        changes == changed \ {"location_id"}
        obj == [f \in DOMAIN asset |-> IF f \in changed THEN data[f] ELSE asset[f]]
    IN  IF changes = {} /\ ~location_change
        THEN [result |-> "ok", obj |-> asset, evs |-> <<>>, commit |-> FALSE]
        ELSE Ok(obj,
                (IF location_change
                 THEN <<AssetEvent(asset_id, "MOVE", NULL, NULL,
                                   asset.location_id, data.location_id)>>
                 ELSE <<>>)
                \o
                [i \in 1..Cardinality(changes) |->
                    AssetEvent(asset_id, "UPDATE", NULL, NULL, NULL, NULL)])

\* Mutant: the payload is dumped without exclude_unset, so a location_id
\* that was not sent reads as None.
update_asset_unset_as_none(asset, asset_id, data) ==
    LET full == IF "location_id" \in DOMAIN data THEN data
                ELSE data @@ ("location_id" :> NULL)
        changed == {k \in DOMAIN full : asset[k] # full[k]}
        location_change == "location_id" \in changed
        changes == changed \ {"location_id"}
        obj == [f \in DOMAIN asset |-> IF f \in changed THEN full[f] ELSE asset[f]]
    IN  IF changes = {} /\ ~location_change
        THEN [result |-> "ok", obj |-> asset, evs |-> <<>>, commit |-> FALSE]
        ELSE Ok(obj,
                (IF location_change
                 THEN <<AssetEvent(asset_id, "MOVE", NULL, NULL,
                                   asset.location_id, full.location_id)>>
                 ELSE <<>>)
                \o
                (IF changes # {}
                 THEN <<AssetEvent(asset_id, "UPDATE", NULL, NULL, NULL, NULL)>>
                 ELSE <<>>))

\* update_asset: data is the payload restricted to its explicitly set fields
\* (model_dump(exclude_unset=True)). Returns before any commit when no field
\* present differs from the row; a changed location_id becomes a MOVE event,
\* all other changed fields one UPDATE event.
update_asset(asset, asset_id, data) ==
    LET changed == {k \in DOMAIN data : asset[k] # data[k]}
        location_change == "location_id" \in changed
        changes == changed \ {"location_id"}
        obj == [f \in DOMAIN asset |-> IF f \in changed THEN data[f] ELSE asset[f]]
    IN  IF changes = {} /\ ~location_change
        THEN [result |-> "ok", obj |-> asset, evs |-> <<>>, commit |-> FALSE]
        ELSE Ok(obj,
                (IF location_change
                 THEN <<AssetEvent(asset_id, "MOVE", NULL, NULL,
                                   asset.location_id, data.location_id)>>
                 ELSE <<>>)
                \o
                (IF changes # {}
                 THEN <<AssetEvent(asset_id, "UPDATE", NULL, NULL, NULL, NULL)>>
                 ELSE <<>>))

\* ------------------------------------------------------------ db.commit()
\* Foreign keys of the assets table, checked by the database when the
\* UPDATE / INSERT is flushed.
FkOk(db_users, db_locations, writes) ==
    /\ ("assigned_to_user_id" \in DOMAIN writes) =>
            writes.assigned_to_user_id \in db_users \cup {NULL}
    /\ ("location_id" \in DOMAIN writes) =>
            writes.location_id \in db_locations \cup {NULL}

\* The columns declared nullable=False reject None.
NotNullOk(writes) ==
    \A f \in DOMAIN writes \cap {"asset_type", "status", "condition"} :
        writes[f] # NoneStr

\* The unique index on assets.asset_tag (ix_assets_asset_tag) spans every
\* organization.
UniqueOk(db_assets, row) ==
    \A i \in DOMAIN db_assets : db_assets[i].asset_tag # row.asset_tag

\* INSERT INTO asset_events: timestamp defaults to utcnow().
Stamp(evs, now) == [i \in 1..Len(evs) |-> [evs[i] EXCEPT !.timestamp = now]]

\* The finished call, as the caller sees it: the session, the handler and
\* its arguments, the row the handler read, the length of the event log and
\* the time just before its commit (or when it raised), and "ok" or the
\* error raised.
Finished(proc, op, asset_id, arg, pre, nev, result) ==
    [proc |-> proc, op |-> op, asset_id |-> asset_id, arg |-> arg,
     pre |-> pre, nev |-> nev, clk |-> clock, result |-> result]

\* Mutant: the session's events are committed on their own, before the row.
Commit_events_apart(bound, proc, op, asset_id, arg, pre, out) ==
    LET writes == IF out.commit THEN Dirty(pre, out.obj) ELSE <<>>
        now == clock + 1
    IN  /\ out.commit => clock < bound
        /\ IF out.commit /\ FkOk(users, locations, writes) /\ NotNullOk(writes)
           THEN /\ assets' = [assets EXCEPT ![asset_id] = ApplyWrites(@, writes, now)]
                /\ events' = events \o Stamp(out.evs, now)
                /\ clock' = now
                /\ last' = Finished(proc, op, asset_id, arg, pre, Len(events), out.result)
           ELSE /\ UNCHANGED <<assets>>
                /\ events' = events \o Stamp(out.evs, now)
                /\ clock' = IF out.commit THEN now ELSE clock
                /\ last' = Finished(proc, op, asset_id, arg, pre, Len(events),
                                    IF out.commit THEN "IntegrityError" ELSE out.result)
        /\ UNCHANGED <<asset_requests, user_requests, rate_limit_store, served>>
        /\ UNCHANGED <<users, accounts, user_events, locations>>

\* Mutant: every commit stamps the asset's earlier events again.
Commit_restamps_log(bound, proc, op, asset_id, arg, pre, out) ==
    LET writes == IF out.commit THEN Dirty(pre, out.obj) ELSE <<>>
        now == clock + 1
    IN  /\ out.commit => clock < bound
        /\ IF out.commit /\ FkOk(users, locations, writes) /\ NotNullOk(writes)
           THEN /\ assets' = [assets EXCEPT ![asset_id] = ApplyWrites(@, writes, now)]
                /\ events' = Stamp(events, now) \o Stamp(out.evs, now)
                /\ clock' = now
                /\ last' = Finished(proc, op, asset_id, arg, pre, Len(events), out.result)
           ELSE /\ UNCHANGED <<assets, events, clock>>
                /\ last' = Finished(proc, op, asset_id, arg, pre, Len(events),
                                    IF out.commit THEN "IntegrityError" ELSE out.result)
        /\ UNCHANGED <<asset_requests, user_requests, rate_limit_store, served>>
        /\ UNCHANGED <<users, accounts, user_events, locations>>

\* One handler run to its end in one step: `out` is the handler body's
\* outcome on the committed state; db.commit() flushes the changed columns
\* of the row and the session's events, or raises (a foreign key or a None
\* the database rejects) and is rolled back. `bound` caps the committed
\* transactions of the behaviour.
Commit(bound, proc, op, asset_id, arg, pre, out) ==
    LET writes == IF out.commit THEN Dirty(pre, out.obj) ELSE <<>>
        now == clock + 1
    IN  /\ out.commit => clock < bound
        /\ IF out.commit /\ FkOk(users, locations, writes) /\ NotNullOk(writes)
           THEN /\ assets' = [assets EXCEPT ![asset_id] = ApplyWrites(@, writes, now)]
                /\ events' = events \o Stamp(out.evs, now)
                /\ clock' = now
                /\ last' = Finished(proc, op, asset_id, arg, pre, Len(events), out.result)
           ELSE /\ UNCHANGED <<assets, events, clock>>
                /\ last' = Finished(proc, op, asset_id, arg, pre, Len(events),
                                    IF out.commit THEN "IntegrityError" ELSE out.result)
        /\ UNCHANGED <<asset_requests, user_requests, rate_limit_store, served>>
        /\ UNCHANGED <<users, accounts, user_events, locations>>

\* ------------------------------------------------------------ requests
AssetIdArgs  == AssetIds \cup {Cardinality(AssetIds) + 1}
UserIdArgs   == 1..(NumUsers + 1)
LocationArgs == {NULL} \cup 1..(NumLocations + 1)
SeatArgs     == {NULL} \cup 0..MaxSeats

\* Payloads AssetCreate accepts (seats are None or >= 0).
CreatePayloads ==
    [asset_tag : {"TAG-1"}, asset_type : {"HARDWARE"},
     category : {"Laptop"}, subscription : {NoneStr}, status : AssetStatus,
     seats_total : {NULL}, seats_used : {NULL},
     location_id : {NULL}, condition : {"GOOD"}]
    \cup
    [asset_tag : {"TAG-1"}, asset_type : {"SOFTWARE"},
     category : {NoneStr}, subscription : {"Office"}, status : AssetStatus,
     seats_total : SeatArgs, seats_used : {NULL} \cup 0..1,
     location_id : {NULL}, condition : {"GOOD"}]

\* The create payloads of a new, unused asset: in stock or retired, no seat
\* in use.
FreshPayloads ==
    {c \in CreatePayloads : c.status \in {"IN_STOCK", "RETIRED"} /\ c.seats_used \in {NULL, 0}}

\* Payloads AssetUpdate accepts, as the set of explicitly set fields.
UpdateFields ==
    {"asset_type", "status", "seats_total", "seats_used",
     "location_id", "assigned_to_user_id", "condition"}

FieldValues(f) ==
    CASE f = "asset_type" -> AssetType
      [] f = "status" -> AssetStatus
      [] f = "seats_total" -> SeatArgs
      [] f = "seats_used" -> SeatArgs
      [] f = "location_id" -> LocationArgs
      [] f = "assigned_to_user_id" -> {NULL} \cup UserIdArgs
      [] f = "condition" -> {"GOOD", "DAMAGED"}

OneField(fields) == UNION {{f :> v : v \in FieldValues(f)} : f \in fields}

\* The empty payload, every payload of one field, an explicit null for
\* asset_type, and the payloads that set status together with location_id.
UpdatePayloads ==
    {<<>>} \cup OneField(UpdateFields) \cup {"asset_type" :> NoneStr}
    \cup {p @@ q : p \in {"status" :> "IN_STOCK", "status" :> "RETIRED"},
                    q \in {"location_id" :> NULL, "location_id" :> 1}}

\* crud.create_asset run to its end in one step: the INSERT of the row is
\* flushed, then the CREATE event, then both are committed; a tag some row
\* already has or a location that does not exist makes the flush raise and
\* the transaction is rolled back. `ids` are the primary keys the table can
\* hand out.
CreateAsset(ids, bound, payload, organization_id) ==
    LET id == Cardinality(DOMAIN assets) + 1
        out == create_asset(assets, payload, organization_id, id)
        now == clock + 1
        arg == [payload |-> payload, organization_id |-> organization_id]
    IN  /\ id \in ids
        /\ out.commit => clock < bound
        /\ IF out.commit /\ UniqueOk(assets, out.obj)
                /\ FkOk(users, locations, [location_id |-> out.obj.location_id])
           THEN /\ assets' = (id :> [out.obj EXCEPT !.updated_at = now]) @@ assets
                /\ events' = events \o Stamp(out.evs, now)
                /\ clock' = now
                /\ last' = Finished(0, "create", id, arg, NoAsset, Len(events), out.result)
           ELSE /\ UNCHANGED <<assets, events, clock>>
                /\ last' = Finished(0, "create", id, arg, NoAsset, Len(events),
                                    IF out.commit THEN "IntegrityError" ELSE out.result)
        /\ UNCHANGED <<asset_requests, user_requests, rate_limit_store, served>>
        /\ UNCHANGED <<users, accounts, user_events, locations, sess>>

\* Further payloads AssetUpdate accepts: an explicit null for a field (every
\* field is Optional), category, and several fields at once.
PatchValues(f) ==
    IF f = "category" THEN {NoneStr, "Laptop"}
    ELSE IF f \in {"asset_type", "status", "condition"} THEN {NoneStr}
    ELSE {NULL}

PatchPayloads ==
    UpdatePayloads
    \cup UNION {{f :> v : v \in PatchValues(f)} : f \in UpdateFields \cup {"category"}}
    \cup {("status" :> "IN_REPAIR") @@ ("condition" :> "DAMAGED")}
    \cup {("status" :> "IN_REPAIR") @@ ("condition" :> "DAMAGED") @@ ("location_id" :> l) :
                l \in LocationArgs}
    \cup {("seats_total" :> 1) @@ ("seats_used" :> MaxSeats)}

\* Payloads AssetCreate accepts for either type: validate_hw_sw_fields checks
\* category and subscription only, the seats are any None or >= 0.
PatchCreatePayloads ==
    [asset_tag : {"TAG-1"}, asset_type : {"HARDWARE"},
     category : {"Laptop"}, subscription : {NoneStr}, status : {"IN_STOCK"},
     seats_total : {NULL, 1}, seats_used : {NULL},
     location_id : LocationArgs, condition : {"GOOD"}]
    \cup
    [asset_tag : {"TAG-1"}, asset_type : {"SOFTWARE"},
     category : {NoneStr}, subscription : {"Office"}, status : {"IN_STOCK"},
     seats_total : {NULL, 1}, seats_used : {NULL, MaxSeats},
     location_id : LocationArgs, condition : {"GOOD"}]

\* organization_id as crud.create_asset takes it: None or an organization.
OrgArgs == {NULL} \cup 1..NumOrgs

\* Create payloads over two asset tags.
CatalogPayloads ==
    [asset_tag : {"TAG-1", "TAG-2"}, asset_type : {"HARDWARE"},
     category : {"Laptop"}, subscription : {NoneStr}, status : {"IN_STOCK", "RETIRED"},
     seats_total : {NULL}, seats_used : {NULL},
     location_id : LocationArgs, condition : {"GOOD"}]
    \cup
    [asset_tag : {"TAG-1", "TAG-2"}, asset_type : {"SOFTWARE"},
     category : {NoneStr}, subscription : {"Office"}, status : {"IN_STOCK", "RETIRED"},
     seats_total : {NULL, 1}, seats_used : {NULL},
     location_id : LocationArgs, condition : {"GOOD"}]

\* POST /assets (routers/assets.py create_asset -> crud.create_asset): the
\* router passes no organization_id.
Create(bound, payload) == CreateAsset(AssetIds, bound, payload, NULL)

\* POST /assets/{id}/assign (routers/assets.py assign_asset)
Assign(bound, asset_id, user_id) ==
    /\ Commit(bound, 0, "assign", asset_id, user_id, Get(assets, asset_id),
              assign_asset(assets, users, asset_id, user_id))
    /\ UNCHANGED sess

\* POST /assets/{id}/return (routers/assets.py return_asset): no condition
\* is passed on.
Return(bound, asset_id, user_id) ==
    /\ Commit(bound, 0, "return", asset_id, user_id, Get(assets, asset_id),
              return_asset(assets, asset_id, user_id, NoneStr))
    /\ UNCHANGED sess

\* The bodies of the update requests for asset_id: the router answers 404
\* for a missing asset before it looks at the body, so one body stands for
\* all of them there.
BodiesFor(asset_id, bodies) ==
    IF asset_id \in DOMAIN assets THEN bodies ELSE {<<>>}

\* Mutant: the router does not compare the asset types.
Update_no_type_check(bound, asset_id, data) ==
    LET asset == Get(assets, asset_id) IN
    /\ Commit(bound, 0, "update", asset_id, data, asset,
              IF asset = NoAsset THEN Raise("NotFoundError", asset)
              ELSE update_asset(asset, asset_id, data))
    /\ UNCHANGED sess

\* PUT /assets/{id} (routers/assets.py update_asset): 404 for a missing
\* asset, 400 for an asset_type that is given (not None) and differs, else
\* crud.update_asset.
Update(bound, asset_id, data) ==
    LET asset == Get(assets, asset_id) IN
    /\ Commit(bound, 0, "update", asset_id, data, asset,
              IF asset = NoAsset THEN Raise("NotFoundError", asset)
              ELSE IF "asset_type" \in DOMAIN data /\ data.asset_type # NoneStr
                        /\ data.asset_type # asset.asset_type
                   THEN Raise("ValidationError", asset)
                   ELSE update_asset(asset, asset_id, data))
    /\ UNCHANGED sess

Idle == [pc |-> "idle"]

UserRole == {"ADMIN", "MANAGER", "EMPLOYEE", "AUDITOR"}

\* The users the database starts with: an ADMIN, an AUDITOR, then EMPLOYEEs
\* (the column default); the first NumOrgs of them are members of an
\* organization each, the others of none; all are active (the default).
\* Each has an email address of their own (the u-th address).
NewUser(u) ==
    [organization_id |-> IF u <= NumOrgs THEN u ELSE NULL,
     role |-> IF u = 1 THEN "ADMIN" ELSE IF u = 2 THEN "AUDITOR" ELSE "EMPLOYEE",
     is_active |-> TRUE,
     email |-> u]


Init ==
    /\ asset_requests = <<>>
    /\ user_requests = <<>>
    /\ rate_limit_store = <<>>
    /\ served = <<>>
    /\ users = 1..NumUsers
    /\ accounts = [u \in 1..NumUsers |-> NewUser(u)]
    /\ user_events = <<>>
    /\ locations = 1..NumLocations
    /\ assets = <<>>
    /\ events = <<>>
    /\ clock = 0
    /\ sess = [p \in 1..NumProcs |-> Idle]
    /\ last = Finished(0, "none", NULL, NULL, NoAsset, 0, "ok")

\* Requests served one at a time, all four handlers; one assign may follow
\* the last create or update of a run.
Next ==
    \/ \E payload \in FreshPayloads : Create(MaxClock, payload)
    \/ \E asset_id \in AssetIdArgs, user_id \in UserIdArgs :
            Assign(MaxClock + 1, asset_id, user_id)
    \/ \E asset_id \in AssetIdArgs, user_id \in {NULL} \cup users :
            Return(MaxClock, asset_id, user_id)
    \/ \E asset_id \in AssetIdArgs :
            \E data \in BodiesFor(asset_id, UpdatePayloads) :
                Update(MaxClock, asset_id, data)

Spec == Init /\ [][Next]_vars

\* Requests served one at a time, create / assign / return only, over a
\* longer run.
NextLedger ==
    \/ \E payload \in CreatePayloads : Create(MaxLedgerClock, payload)
    \/ \E asset_id \in AssetIdArgs, user_id \in UserIdArgs :
            Assign(MaxLedgerClock, asset_id, user_id)
    \/ \E asset_id \in AssetIdArgs, user_id \in {NULL} \cup users :
            Return(MaxLedgerClock, asset_id, user_id)

SpecLedger == Init /\ [][NextLedger]_vars

\* Requests served one at a time, create / assign / return only, every
\* asset created in stock or retired with no seat in use.
NextSeats ==
    \/ \E payload \in FreshPayloads : Create(MaxSeatsClock, payload)
    \/ \E asset_id \in AssetIdArgs, user_id \in UserIdArgs :
            Assign(MaxSeatsClock, asset_id, user_id)
    \/ \E asset_id \in AssetIdArgs, user_id \in {NULL} \cup users :
            Return(MaxSeatsClock, asset_id, user_id)

SpecSeats == Init /\ [][NextSeats]_vars

\* Create and update requests on one asset, the payloads at their widest.
NextPatch ==
    \/ \E payload \in PatchCreatePayloads : Create(MaxPatchClock, payload)
    \/ \E asset_id \in AssetIdArgs :
            \E data \in BodiesFor(asset_id, PatchPayloads) :
                Update(MaxPatchClock, asset_id, data)

SpecPatch == Init /\ [][NextPatch]_vars

\* crud.create_asset called for several tags and organization scopes.
NextCatalog ==
    \E payload \in CatalogPayloads, organization_id \in OrgArgs :
        CreateAsset(CatalogIds, Cardinality(CatalogIds), payload, organization_id)

SpecCatalog == Init /\ [][NextCatalog]_vars

\* ------------------------------------------------------------ two sessions
\* A session runs the handler body on the rows it reads (db.get is a plain
\* SELECT: it takes no row lock) and keeps the changed object and the new
\* event in its unit of work until db.commit(). A body that raises ends the
\* call at once.
Begin(bound, p, op, asset_id, arg, out) ==
    LET pending == Cardinality({q \in DOMAIN sess : sess[q].pc = "commit"}) IN
    /\ sess[p].pc = "idle"
    /\ out.commit => clock + pending < bound
    /\ IF out.commit
       THEN /\ sess' = [sess EXCEPT ![p] =
                    [pc |-> "commit", op |-> op, asset_id |-> asset_id, arg |-> arg,
                     pre |-> Get(assets, asset_id), out |-> out]]
            /\ UNCHANGED last
       ELSE /\ last' = Finished(p, op, asset_id, arg, Get(assets, asset_id),
                                Len(events), out.result)
            /\ UNCHANGED sess
    /\ UNCHANGED <<asset_requests, user_requests, rate_limit_store, served>>
    /\ UNCHANGED <<users, accounts, user_events, locations, assets, events, clock>>

BeginAssign(bound, p, asset_id, user_id) ==
    Begin(bound, p, "assign", asset_id, user_id,
          assign_asset(assets, users, asset_id, user_id))

BeginReturn(bound, p, asset_id, user_id) ==
    Begin(bound, p, "return", asset_id, user_id,
          return_asset(assets, asset_id, user_id, NoneStr))

\* db.commit() of a session: under READ COMMITTED (the default of the
\* PostgreSQL engine db.py creates) the UPDATE waits for a concurrent
\* writer of the row and then sets the columns this session changed to the
\* values this session computed; the event is inserted.
CommitSess(bound, p) ==
    /\ sess[p].pc = "commit"
    /\ Commit(bound, p, sess[p].op, sess[p].asset_id, sess[p].arg,
              sess[p].pre, sess[p].out)
    /\ sess' = [sess EXCEPT ![p] = Idle]

\* db.commit() raises (the connection is lost, the database refuses the
\* transaction): except -> db.rollback(); raise. Nothing is written.
RollbackSess(p) ==
    /\ sess[p].pc = "commit"
    /\ last' = Finished(p, sess[p].op, sess[p].asset_id, sess[p].arg,
                        sess[p].pre, Len(events), "CommitError")
    /\ sess' = [sess EXCEPT ![p] = Idle]
    /\ UNCHANGED <<asset_requests, user_requests, rate_limit_store, served>>
    /\ UNCHANGED <<users, accounts, user_events, locations, assets, events, clock>>

NextConc ==
    \/ \E payload \in FreshPayloads : Create(MaxConcClock, payload)
    \/ \E p \in 1..NumProcs, asset_id \in AssetIds, user_id \in UserIdArgs :
            BeginAssign(MaxConcClock, p, asset_id, user_id)
    \/ \E p \in 1..NumProcs, asset_id \in AssetIds, user_id \in {NULL} \cup users :
            BeginReturn(MaxConcClock, p, asset_id, user_id)
    \/ \E p \in 1..NumProcs : CommitSess(MaxConcClock, p)
    \/ \E p \in 1..NumProcs : RollbackSess(p)

SpecConc == Init /\ [][NextConc]_vars

\* ------------------------------------------------------------ user handlers
\* count(ASSIGN events of the asset with to_user_id = user_id)
seat_assigns(db_events, asset_id, user_id) ==
    Cardinality({i \in 1..Len(db_events) :
        /\ db_events[i].asset_id = asset_id
        /\ db_events[i].event_type = "ASSIGN"
        /\ db_events[i].to_user_id = user_id})

\* count(RETURN events of the asset with from_user_id = user_id)
seat_returns(db_events, asset_id, user_id) ==
    Cardinality({i \in 1..Len(db_events) :
        /\ db_events[i].asset_id = asset_id
        /\ db_events[i].event_type = "RETURN"
        /\ db_events[i].from_user_id = user_id})

\* The ids of a set of rows in ascending order.
Ascending(ids) ==
    CHOOSE s \in [1..Cardinality(ids) -> ids] : \A i, j \in DOMAIN s : i < j => s[i] < s[j]

\* One crud.return_asset call made by deactivate_user, run to its
\* db.commit() on the tables as they stand; a ValueError is caught and
\* nothing is written.
returned(db, asset_id, user_id) ==
    LET pre == Get(db.assets, asset_id)
        out == return_asset(db.assets, asset_id, user_id, NoneStr)
        now == db.clock + 1
    IN  IF out.commit
        THEN [assets |-> [db.assets EXCEPT ![asset_id] = ApplyWrites(@, Dirty(pre, out.obj), now)],
              events |-> db.events \o Stamp(out.evs, now),
              clock |-> now]
        ELSE db

\* The return_asset calls of one deactivation, one after the other, each in
\* a transaction of its own.
RECURSIVE return_all(_, _)
return_all(db, calls) ==
    IF calls = <<>> THEN db
    ELSE return_all(returned(db, Head(calls)[1], Head(calls)[2]), Tail(calls))

\* The calls deactivate_user makes for the SOFTWARE assets: for each,
\* assigns - returns calls with user_id = the user. (The loop breaks at the
\* first ValueError of an asset; the calls left would raise the same.)
RECURSIVE seat_calls(_, _, _)
seat_calls(db_events, ids, user_id) ==
    IF ids = <<>> THEN <<>>
    ELSE LET seats_to_return == seat_assigns(db_events, Head(ids), user_id)
                                - seat_returns(db_events, Head(ids), user_id)
         IN  [k \in 1..seats_to_return |-> <<Head(ids), user_id>>]
             \o seat_calls(db_events, Tail(ids), user_id)

\* DELETE /users/{user_id} (routers/users.py deactivate_user), called by an
\* active ADMIN: 404 for a missing user, 400 for the caller's own account
\* and for an ADMIN without confirm=true; else every HARDWARE asset assigned
\* to the user is returned (no user_id is passed), then every seat the event
\* log says the user holds, then is_active is cleared and committed.
DeactivateUser(bound, user_id, current_user_id, confirm) ==
    LET arg == [user_id |-> user_id, current_user_id |-> current_user_id, confirm |-> confirm]
        hardware_assets == {id \in DOMAIN assets :
                                /\ assets[id].assigned_to_user_id = user_id
                                /\ assets[id].asset_type = "HARDWARE"}
        all_software == {id \in DOMAIN assets : assets[id].asset_type = "SOFTWARE"}
        calls == [k \in 1..Cardinality(hardware_assets) |-> <<Ascending(hardware_assets)[k], NULL>>]
                 \o seat_calls(events, Ascending(all_software), user_id)
        db == return_all([assets |-> assets, events |-> events, clock |-> clock], calls)
        refused == IF user_id \notin users THEN "NotFoundError"
                   ELSE IF user_id = current_user_id THEN "SelfDeactivationError"
                   ELSE IF accounts[user_id].role = "ADMIN" /\ ~confirm THEN "ConfirmRequiredError"
                   ELSE "ok"
    IN  /\ current_user_id \in users
        /\ accounts[current_user_id].is_active
        /\ accounts[current_user_id].role = "ADMIN"
        /\ IF refused # "ok"
           THEN /\ last' = Finished(0, "deactivate_user", NULL, arg, NoAsset, Len(events), refused)
                /\ UNCHANGED <<accounts, assets, events, clock>>
           ELSE /\ db.clock < bound
                /\ assets' = db.assets
                /\ events' = db.events
                /\ clock' = db.clock + 1
                /\ accounts' = [accounts EXCEPT ![user_id].is_active = FALSE]
                /\ last' = Finished(0, "deactivate_user", NULL, arg, NoAsset, Len(events), "ok")
        /\ UNCHANGED <<asset_requests, user_requests, rate_limit_store, served>>
        /\ UNCHANGED <<users, user_events, locations, sess>>

\* crud.add_user_event: the row of user_events, timestamp = utcnow().
UserEvent(event_type, target_user_id, actor_user_id, now) ==
    [event_type |-> event_type, target_user_id |-> target_user_id,
     actor_user_id |-> actor_user_id, timestamp |-> now]

\* DELETE /auth/leave-organization (routers/auth.py leave_organization),
\* called by an active user: every asset whose assigned_to_user_id is the
\* user, of either type, gets assigned_to_user_id = None and status =
\* IN_STOCK; crud.add_user_event adds a USER_DEACTIVATED row and commits it
\* together with the changed assets; then the user is taken out of the
\* organization, deactivated, and that is committed.
LeaveOrganization(bound, user_id) ==
    LET now == clock + 1
        left(asset) == [asset EXCEPT !.assigned_to_user_id = NULL, !.status = "IN_STOCK"]
    IN  /\ user_id \in users
        /\ accounts[user_id].is_active
        /\ clock + 1 < bound
        /\ assets' = [id \in DOMAIN assets |->
                        IF assets[id].assigned_to_user_id = user_id
                        THEN ApplyWrites(assets[id], Dirty(assets[id], left(assets[id])), now)
                        ELSE assets[id]]
        /\ user_events' = Append(user_events,
                                 UserEvent("USER_DEACTIVATED", user_id, user_id, now))
        /\ accounts' = [accounts EXCEPT ![user_id].organization_id = NULL,
                                        ![user_id].is_active = FALSE]
        /\ clock' = clock + 2
        /\ last' = Finished(0, "leave_organization", NULL, user_id, NoAsset, Len(events), "ok")
        /\ UNCHANGED <<asset_requests, user_requests, rate_limit_store, served>>
        /\ UNCHANGED <<users, locations, events, sess>>

\* auth.py get_current_user and require_roles: the caller's account exists
\* and is active (else 401) and has one of the roles (else 403).
require_roles(current_user_id, roles) ==
    /\ current_user_id \in users
    /\ accounts[current_user_id].is_active
    /\ accounts[current_user_id].role \in roles

\* POST /users/{user_id}/activate (routers/users.py activate_user), called
\* by an active ADMIN: 404 for a missing user, 400 for an active one; else
\* is_active is set and committed.
ActivateUser(user_id, current_user_id) ==
    LET arg == [user_id |-> user_id, current_user_id |-> current_user_id]
        refused == IF user_id \notin users THEN "NotFoundError"
                   ELSE IF accounts[user_id].is_active THEN "AlreadyActiveError"
                   ELSE "ok"
    IN  /\ require_roles(current_user_id, {"ADMIN"})
        /\ accounts' = IF refused = "ok"
                       THEN [accounts EXCEPT ![user_id].is_active = TRUE]
                       ELSE accounts
        /\ last' = Finished(0, "activate_user", NULL, arg, NoAsset, Len(events), refused)
        /\ UNCHANGED <<asset_requests, user_requests, rate_limit_store, served>>
        /\ UNCHANGED <<users, user_events, locations, assets, events, clock, sess>>

\* Values of the new_role query parameter: the roles and one that is none.
RoleArgs == UserRole \cup {"OWNER"}

\* Mutant: the caller's own role can be changed.
ChangeUserRole_allows_own(user_id, current_user_id, new_role) ==
    LET arg == [user_id |-> user_id, current_user_id |-> current_user_id,
                new_role |-> new_role]
        refused == IF user_id \notin users THEN "NotFoundError"
                   ELSE IF new_role \notin UserRole THEN "InvalidRoleError"
                   ELSE "ok"
    IN  /\ require_roles(current_user_id, {"ADMIN"})
        /\ accounts' = IF refused = "ok"
                       THEN [accounts EXCEPT ![user_id].role = new_role]
                       ELSE accounts
        /\ last' = Finished(0, "change_user_role", NULL, arg, NoAsset, Len(events), refused)
        /\ UNCHANGED <<asset_requests, user_requests, rate_limit_store, served>>
        /\ UNCHANGED <<users, user_events, locations, assets, events, clock, sess>>

\* PATCH /users/{user_id}/role (routers/users.py change_user_role), called
\* by an active ADMIN: 404 for a missing user, 400 for the caller's own
\* account, 400 for a value that is no UserRole; else the role is set and
\* committed.
ChangeUserRole(user_id, current_user_id, new_role) ==
    LET arg == [user_id |-> user_id, current_user_id |-> current_user_id,
                new_role |-> new_role]
        refused == IF user_id \notin users THEN "NotFoundError"
                   ELSE IF user_id = current_user_id THEN "SelfRoleChangeError"
                   ELSE IF new_role \notin UserRole THEN "InvalidRoleError"
                   ELSE "ok"
    IN  /\ require_roles(current_user_id, {"ADMIN"})
        /\ accounts' = IF refused = "ok"
                       THEN [accounts EXCEPT ![user_id].role = new_role]
                       ELSE accounts
        /\ last' = Finished(0, "change_user_role", NULL, arg, NoAsset, Len(events), refused)
        /\ UNCHANGED <<asset_requests, user_requests, rate_limit_store, served>>
        /\ UNCHANGED <<users, user_events, locations, assets, events, clock, sess>>

\* Requests served one at a time: create, assign and return (the latter two
\* by an active ADMIN or MANAGER) and the handlers that take an account out
\* of service and back.
NextAdmin ==
    \/ \E payload \in FreshPayloads : Create(MaxAdminClock, payload)
    \/ \E current_user_id \in users, asset_id \in AssetIdArgs, user_id \in UserIdArgs :
            /\ require_roles(current_user_id, {"ADMIN", "MANAGER"})
            /\ Assign(MaxAdminClock, asset_id, user_id)
    \/ \E current_user_id \in users, asset_id \in AssetIdArgs, user_id \in {NULL} \cup users :
            /\ require_roles(current_user_id, {"ADMIN", "MANAGER"})
            /\ Return(MaxAdminClock, asset_id, user_id)
    \/ \E user_id \in UserIdArgs, current_user_id \in users, confirm \in BOOLEAN :
            DeactivateUser(MaxAdminClock, user_id, current_user_id, confirm)
    \/ \E user_id \in UserIdArgs, current_user_id \in users :
            ActivateUser(user_id, current_user_id)

SpecAdmin == Init /\ [][NextAdmin]_vars

\* The create payloads of a new HARDWARE asset.
HardwarePayloads == {c \in FreshPayloads : c.asset_type = "HARDWARE"}

\* Requests served one at a time: the three handlers an ADMIN has for the
\* accounts, and create and assign to give the accounts assets to hold.
NextRoles ==
    \/ \E payload \in HardwarePayloads : Create(MaxRolesClock, payload)
    \/ \E current_user_id \in users, asset_id \in AssetIds, user_id \in users :
            /\ require_roles(current_user_id, {"ADMIN", "MANAGER"})
            /\ Assign(MaxRolesClock, asset_id, user_id)
    \/ \E user_id \in UserIdArgs, current_user_id \in users, confirm \in BOOLEAN :
            DeactivateUser(MaxRolesClock, user_id, current_user_id, confirm)
    \/ \E user_id \in UserIdArgs, current_user_id \in users :
            ActivateUser(user_id, current_user_id)
    \/ \E user_id \in UserIdArgs, current_user_id \in users, new_role \in RoleArgs :
            ChangeUserRole(user_id, current_user_id, new_role)

SpecRoles == Init /\ [][NextRoles]_vars

\* Bodies of update requests that set the status or the assignee.
HolderPayloads == OneField({"status", "assigned_to_user_id"})

\* Requests served one at a time: the asset handlers and the two handlers
\* that take a user out of service.
NextUsers ==
    \/ \E payload \in FreshPayloads : Create(MaxUsersClock, payload)
    \/ \E asset_id \in AssetIdArgs, user_id \in UserIdArgs :
            Assign(MaxUsersClock, asset_id, user_id)
    \/ \E asset_id \in AssetIdArgs, user_id \in {NULL} \cup users :
            Return(MaxUsersClock, asset_id, user_id)
    \/ \E asset_id \in AssetIdArgs :
            \E data \in BodiesFor(asset_id, HolderPayloads) :
                Update(MaxUsersClock, asset_id, data)
    \/ \E user_id \in UserIdArgs, current_user_id \in users, confirm \in BOOLEAN :
            DeactivateUser(MaxUsersClock, user_id, current_user_id, confirm)
    \/ \E user_id \in users : LeaveOrganization(MaxUsersClock, user_id)

SpecUsers == Init /\ [][NextUsers]_vars

\* ------------------------------------------------------------ read paths
\* What a GET handler answers: the HTTP status and the body.
Response(status, body) == [status |-> status, body |-> body]

\* One row of list_asset_events: the event with its id.
EventRead(db_events, i) == [id |-> i] @@ db_events[i]

\* ORDER BY timestamp DESC over the rows ids: every order the database may
\* return them in. A row of the latest timestamp comes first, whichever of
\* them the database picks (the statement names no second sort key), then
\* the others in the same way.
RECURSIVE newest_first(_, _)
newest_first(db_events, ids) ==
    IF ids = {} THEN {<<>>}
    ELSE LET latest == {i \in ids : \A j \in ids : db_events[i].timestamp >= db_events[j].timestamp}
         IN  UNION {{<<i>> \o o : o \in newest_first(db_events, ids \ {i})} : i \in latest}

\* crud.list_asset_events: SELECT ... WHERE asset_id = :asset_id ORDER BY
\* timestamp DESC: the set of results the database may return.
list_asset_events(db_events, asset_id) ==
    LET ids == {i \in 1..Len(db_events) : db_events[i].asset_id = asset_id}
    IN  {[k \in DOMAIN o |-> EventRead(db_events, o[k])] : o \in newest_first(db_events, ids)}

\* GET /assets/{asset_id}/events (routers/assets.py get_asset_events),
\* called by an active user: 404 for a missing asset, 403 for an EMPLOYEE
\* the asset is not assigned to, else crud.list_asset_events.
ListAssetEvents(asset_id, current_user_id) ==
    LET asset == Get(assets, asset_id)
        answers == IF asset = NoAsset THEN {Response(404, <<>>)}
                   ELSE IF accounts[current_user_id].role = "EMPLOYEE"
                            /\ asset.assigned_to_user_id # current_user_id
                        THEN {Response(403, <<>>)}
                        ELSE {Response(200, rows) : rows \in list_asset_events(events, asset_id)}
    IN  /\ current_user_id \in users
        /\ accounts[current_user_id].is_active
        /\ \E answer \in answers :
                last' = Finished(0, "list_asset_events", asset_id, current_user_id,
                                 asset, Len(events), answer)
        /\ UNCHANGED <<asset_requests, user_requests, rate_limit_store, served>>
        /\ UNCHANGED <<users, accounts, user_events, locations, assets, events, clock, sess>>

\* Mutant: a user who was ever given a seat is listed, returns are not counted.
get_user_assets_ignores_returns(db_assets, db_events, db_users, user_id) ==
    IF user_id \notin db_users THEN Response(404, {})
    ELSE LET hardware_assets == {id \in DOMAIN db_assets :
                                    /\ db_assets[id].assigned_to_user_id = user_id
                                    /\ db_assets[id].asset_type = "HARDWARE"}
             all_software == {id \in DOMAIN db_assets : db_assets[id].asset_type = "SOFTWARE"}
             software_assets == {id \in all_software : seat_assigns(db_events, id, user_id) > 0}
         IN  Response(200, hardware_assets \cup software_assets)

\* GET /users/{user_id}/assets (routers/users.py get_user_assets): 404 for a
\* missing user; else the HARDWARE assets whose assigned_to_user_id is the
\* user, and the SOFTWARE assets with more ASSIGN events to the user than
\* RETURN events from the user. The body is the ids of the assets returned.
get_user_assets(db_assets, db_events, db_users, user_id) ==
    IF user_id \notin db_users THEN Response(404, {})
    ELSE LET hardware_assets == {id \in DOMAIN db_assets :
                                    /\ db_assets[id].assigned_to_user_id = user_id
                                    /\ db_assets[id].asset_type = "HARDWARE"}
             all_software == {id \in DOMAIN db_assets : db_assets[id].asset_type = "SOFTWARE"}
             software_assets == {id \in all_software :
                                    seat_assigns(db_events, id, user_id)
                                        > seat_returns(db_events, id, user_id)}
         IN  Response(200, hardware_assets \cup software_assets)

GetUserAssets(user_id) ==
    /\ last' = Finished(0, "get_user_assets", NULL, user_id, NoAsset, Len(events),
                        get_user_assets(assets, events, users, user_id))
    /\ UNCHANGED <<asset_requests, user_requests, rate_limit_store, served>>
    /\ UNCHANGED <<users, accounts, user_events, locations, assets, events, clock, sess>>

\* Bodies of update requests that set status and location_id together, or
\* the assignee.
ReadUpdatePayloads ==
    {p @@ q : p \in {"status" :> "IN_STOCK", "status" :> "RETIRED"},
              q \in {"location_id" :> NULL, "location_id" :> 1}}
    \cup OneField({"assigned_to_user_id"})

\* ------------------------------------------------------------ audit summary
\* timedelta(days=7)
WeekDays == 7

\* now.replace(hour=0, minute=0, second=0, microsecond=0)
today_start(now) == now - (now % DayTicks)

\* Mutant: the week is the 7 days before now.
week_start_trailing(now) ==
    now - WeekDays * DayTicks

\* week_start = today_start - timedelta(days=7)
week_start(now) ==
    today_start(now) - WeekDays * DayTicks

\* The case(...) counted as assigned: HARDWARE with status ASSIGNED, or
\* SOFTWARE that is not RETIRED, has seats_total set and coalesce(seats_used,
\* 0) >= seats_total.
assigned_case(asset) ==
    \/ asset.asset_type = "HARDWARE" /\ asset.status = "ASSIGNED"
    \/ /\ asset.asset_type = "SOFTWARE"
       /\ asset.status # "RETIRED"
       /\ asset.seats_total # NULL
       /\ OrZero(asset.seats_used) >= asset.seats_total

\* Mutant: SOFTWARE is counted by its stored status, as HARDWARE is.
in_stock_case_by_status(asset) ==
    asset.status = "IN_STOCK"

\* The case(...) counted as in stock: HARDWARE with status IN_STOCK, or
\* SOFTWARE that is not RETIRED and has no seats_total or coalesce(seats_used,
\* 0) < seats_total.
in_stock_case(asset) ==
    \/ asset.asset_type = "HARDWARE" /\ asset.status = "IN_STOCK"
    \/ /\ asset.asset_type = "SOFTWARE"
       /\ asset.status # "RETIRED"
       /\ \/ asset.seats_total = NULL
          \/ OrZero(asset.seats_used) < asset.seats_total

\* func.sum over the rows selected; a NULL adds nothing.
RECURSIVE Sum(_, _)
Sum(f, S) ==
    IF S = {} THEN 0
    ELSE LET x == CHOOSE y \in S : TRUE IN OrZero(f[x]) + Sum(f, S \ {x})

\* crud.get_audit_summary at time now: the users and the assets of the
\* organization (organization_id None: those of no organization), the user
\* events whose target user and the asset events whose asset is among them.
get_audit_summary(db_accounts, db_assets, db_events, db_user_events, organization_id, now) ==
    LET in_users == {u \in DOMAIN db_accounts : db_accounts[u].organization_id = organization_id}
        in_assets == {id \in DOMAIN db_assets : db_assets[id].organization_id = organization_id}
        software == {id \in in_assets : db_assets[id].asset_type = "SOFTWARE"}
        in_user_events == {i \in 1..Len(db_user_events) : db_user_events[i].target_user_id \in in_users}
        in_asset_events == {i \in 1..Len(db_events) : db_events[i].asset_id \in in_assets}
        total_users == Cardinality(in_users)
        active_users == Cardinality({u \in in_users : db_accounts[u].is_active})
        software_seats_total == Sum([id \in software |-> db_assets[id].seats_total], software)
        software_seats_used == Sum([id \in software |-> db_assets[id].seats_used], software)
    IN  [total_users |-> total_users,
         active_users |-> active_users,
         inactive_users |-> total_users - active_users,
         total_assets |-> Cardinality(in_assets),
         hardware_count |-> Cardinality({id \in in_assets : db_assets[id].asset_type = "HARDWARE"}),
         software_count |-> Cardinality(software),
         assigned_assets |-> Cardinality({id \in in_assets : assigned_case(db_assets[id])}),
         in_stock_assets |-> Cardinality({id \in in_assets : in_stock_case(db_assets[id])}),
         retired_assets |-> Cardinality({id \in in_assets : db_assets[id].status = "RETIRED"}),
         software_seats_total |-> software_seats_total,
         software_seats_used |-> software_seats_used,
         software_seats_available |-> software_seats_total - software_seats_used,
         user_events_today |-> Cardinality({i \in in_user_events :
                                    db_user_events[i].timestamp >= today_start(now)}),
         user_events_week |-> Cardinality({i \in in_user_events :
                                    db_user_events[i].timestamp >= week_start(now)}),
         asset_events_today |-> Cardinality({i \in in_asset_events :
                                    db_events[i].timestamp >= today_start(now)}),
         asset_events_week |-> Cardinality({i \in in_asset_events :
                                    db_events[i].timestamp >= week_start(now)})]

\* GET /audit/summary (routers/audit.py get_audit_summary), called at time
\* now by an active ADMIN or AUDITOR: crud.get_audit_summary(db), with no
\* organization_id.
GetAuditSummary(current_user_id, now) ==
    /\ current_user_id \in users
    /\ accounts[current_user_id].is_active
    /\ accounts[current_user_id].role \in {"ADMIN", "AUDITOR"}
    /\ last' = Finished(0, "get_audit_summary", NULL,
                        [current_user_id |-> current_user_id, now |-> now],
                        NoAsset, Len(events),
                        get_audit_summary(accounts, assets, events, user_events, NULL, now))
    /\ UNCHANGED <<asset_requests, user_requests, rate_limit_store, served>>
    /\ UNCHANGED <<users, accounts, user_events, locations, assets, events, clock, sess>>

\* The times a summary can be asked for: from the last commit to a day past
\* the week after it.
Nows == clock..(clock + (WeekDays + 2) * DayTicks)

\* Requests served one at a time: assets are created and assigned, users
\* leave, and the summary is asked for.
NextSummary ==
    \/ \E payload \in CreatePayloads : Create(MaxSummaryClock, payload)
    \/ \E asset_id \in AssetIdArgs, user_id \in UserIdArgs :
            Assign(MaxSummaryClock, asset_id, user_id)
    \/ \E user_id \in users : LeaveOrganization(MaxSummaryClock, user_id)
    \/ \E current_user_id \in users, now \in Nows : GetAuditSummary(current_user_id, now)

SpecSummary == Init /\ [][NextSummary]_vars

\* Requests served one at a time: the asset handlers, and the reads between
\* them.
NextRead ==
    \/ \E payload \in FreshPayloads : Create(MaxReadClock, payload)
    \/ \E asset_id \in AssetIdArgs, user_id \in UserIdArgs :
            Assign(MaxReadClock, asset_id, user_id)
    \/ \E asset_id \in AssetIdArgs, user_id \in {NULL} \cup users :
            Return(MaxReadClock, asset_id, user_id)
    \/ \E asset_id \in AssetIdArgs :
            \E data \in BodiesFor(asset_id, ReadUpdatePayloads) :
                Update(MaxReadClock, asset_id, data)
    \/ \E asset_id \in AssetIdArgs, current_user_id \in users :
            ListAssetEvents(asset_id, current_user_id)
    \/ \E user_id \in UserIdArgs : GetUserAssets(user_id)

SpecRead == Init /\ [][NextRead]_vars

\* ------------------------------------------- routers/asset_requests.py
\* hardware_query: HARDWARE with status IN_STOCK.
hardware_query(db_assets) ==
    {id \in DOMAIN db_assets :
        db_assets[id].asset_type = "HARDWARE" /\ db_assets[id].status = "IN_STOCK"}

\* software_query: SOFTWARE that is not RETIRED and has no seats_total or
\* coalesce(seats_used, 0) < seats_total.
software_query(db_assets) ==
    {id \in DOMAIN db_assets :
        /\ db_assets[id].asset_type = "SOFTWARE"
        /\ db_assets[id].status # "RETIRED"
        /\ \/ db_assets[id].seats_total = NULL
           \/ OrZero(db_assets[id].seats_used) < db_assets[id].seats_total}

\* GET /available-assets, the ids of the rows it lists: one query for an
\* asset_type of "HARDWARE" or "SOFTWARE", both for any other value.
get_available_assets(db_assets, asset_type) ==
    IF asset_type = "HARDWARE" THEN hardware_query(db_assets)
    ELSE IF asset_type = "SOFTWARE" THEN software_query(db_assets)
    ELSE hardware_query(db_assets) \cup software_query(db_assets)

\* ------------------------------------------- asset requests (the handlers)
\* models.AssetRequest(...) in create_asset_request: status PENDING, nothing
\* resolved. (Of the columns, those the approve and deny handlers read or
\* write.)
AssetRequest(asset_id, requester_id) ==
    [asset_id |-> asset_id, requester_id |-> requester_id, status |-> "PENDING",
     resolved_by_id |-> NULL, resolved_at |-> NULL]

\* Values of AssetRequestCreate.request_type: the two types and one that is
\* none.
RequestTypeArgs == {"NEW_ASSET", "EXISTING_ASSET", "OTHER"}

\* POST /asset-requests (create_asset_request), called by any active user:
\* an EXISTING_ASSET request needs an asset_id (400) of an asset that exists
\* (404) and is not RETIRED (400), a NEW_ASSET request needs a description
\* (400), any other type is a 400; the row is committed (the foreign key of
\* asset_id is checked then).
CreateAssetRequest(current_user_id, request_type, asset_id, described) ==
    LET arg == [current_user_id |-> current_user_id, request_type |-> request_type]
        asset == Get(assets, asset_id)
        refused == IF request_type = "EXISTING_ASSET"
                   THEN IF asset_id = NULL THEN "ValidationError"
                        ELSE IF asset = NoAsset THEN "NotFoundError"
                        ELSE IF asset.status = "RETIRED" THEN "InvalidTransitionError"
                        ELSE "ok"
                   ELSE IF request_type = "NEW_ASSET"
                   THEN IF ~described THEN "ValidationError"
                        ELSE IF asset_id # NULL /\ asset = NoAsset THEN "IntegrityError"
                        ELSE "ok"
                   ELSE "ValidationError"
    IN  /\ require_roles(current_user_id, UserRole)
        /\ IF refused = "ok"
           THEN /\ Len(asset_requests) < MaxAssetRequests
                /\ asset_requests' = Append(asset_requests,
                        AssetRequest(asset_id, current_user_id))
           ELSE UNCHANGED asset_requests
        /\ last' = Finished(0, "create_asset_request", asset_id, arg, NoAsset,
                            Len(events), refused)
        /\ UNCHANGED <<user_requests, rate_limit_store, served>>
        /\ UNCHANGED <<users, accounts, user_events, locations, assets, events, clock, sess>>

\* Mutant: a resolved request can be resolved again.
already_resolved_never(request) ==
    FALSE

\* `if request.status != models.AssetRequestStatus.PENDING: raise
\* HTTPException(400, "Request has already been resolved")`
already_resolved(request) ==
    request.status # "PENDING"

\* The db.commit() of a request that raises: none, the one inside
\* crud.assign_asset, or the handler's own.
CommitFailures == {"none", "assign", "resolve"}

\* POST /asset-requests/{id}/approve (approve_asset_request), called by an
\* active user: 403 unless ADMIN or MANAGER, 404 for a missing request, 400
\* for a resolved one. With assign_asset_id, crud.assign_asset assigns the
\* asset to the requester and commits; its ValueError is a 400. Then the
\* request gets asset_id, status APPROVED, resolved_by_id and resolved_at,
\* and the handler commits a second time. A commit that raises rolls back
\* what that commit was to write.
ApproveAssetRequest(bound, request_id, assign_asset_id, current_user_id) ==
    LET arg == [request_id |-> request_id, current_user_id |-> current_user_id]
        request == Get(asset_requests, request_id)
        pre == Get(assets, assign_asset_id)
        out == assign_asset(assets, users, assign_asset_id, request.requester_id)
        refused == IF accounts[current_user_id].role \notin {"ADMIN", "MANAGER"}
                   THEN "ForbiddenError"
                   ELSE IF request = NoAsset THEN "NotFoundError"
                   ELSE IF already_resolved(request) THEN "AlreadyResolvedError"
                   ELSE IF assign_asset_id # NULL /\ ~out.commit THEN out.result
                   ELSE "ok"
        resolved(assigned, now) ==
            [request EXCEPT !.asset_id = IF assigned THEN assign_asset_id ELSE @,
                            !.status = "APPROVED",
                            !.resolved_by_id = current_user_id,
                            !.resolved_at = now]
        done(result) == Finished(0, "approve_asset_request", assign_asset_id, arg,
                                 request, Len(events), result)
    IN  /\ require_roles(current_user_id, UserRole)
        /\ IF refused # "ok"
           THEN /\ last' = done(refused)
                /\ UNCHANGED <<asset_requests, assets, events, clock>>
           ELSE \E failing \in CommitFailures :
                IF assign_asset_id # NULL /\ failing = "assign"
                THEN /\ last' = done("CommitError")
                     /\ UNCHANGED <<asset_requests, assets, events, clock>>
                ELSE LET assigned == assign_asset_id # NULL
                         now == IF assigned THEN clock + 2 ELSE clock + 1
                     IN  /\ now <= bound
                         /\ failing # "assign"
                         /\ IF assigned
                            THEN /\ assets' = [assets EXCEPT ![assign_asset_id] =
                                        ApplyWrites(pre, Dirty(pre, out.obj), clock + 1)]
                                 /\ events' = events \o Stamp(out.evs, clock + 1)
                            ELSE UNCHANGED <<assets, events>>
                         /\ IF failing = "resolve"
                            THEN /\ UNCHANGED asset_requests
                                 /\ clock' = IF assigned THEN clock + 1 ELSE clock
                                 /\ last' = done("CommitError")
                            ELSE /\ asset_requests' = [asset_requests EXCEPT
                                        ![request_id] = resolved(assigned, now)]
                                 /\ clock' = now
                                 /\ last' = done("ok")
        /\ UNCHANGED <<user_requests, rate_limit_store, served>>
        /\ UNCHANGED <<users, accounts, user_events, locations, sess>>

\* POST /asset-requests/{id}/deny (deny_asset_request), called by an active
\* user: 403 unless ADMIN or MANAGER, 404 for a missing request, 400 for a
\* resolved one; else status DENIED, resolved_by_id and resolved_at are
\* committed, unless the commit raises.
DenyAssetRequest(bound, request_id, current_user_id) ==
    LET arg == [request_id |-> request_id, current_user_id |-> current_user_id]
        request == Get(asset_requests, request_id)
        now == clock + 1
        refused == IF accounts[current_user_id].role \notin {"ADMIN", "MANAGER"}
                   THEN "ForbiddenError"
                   ELSE IF request = NoAsset THEN "NotFoundError"
                   ELSE IF already_resolved(request) THEN "AlreadyResolvedError"
                   ELSE "ok"
        done(result) == Finished(0, "deny_asset_request", NULL, arg, request,
                                 Len(events), result)
    IN  /\ require_roles(current_user_id, UserRole)
        /\ IF refused # "ok"
           THEN /\ last' = done(refused)
                /\ UNCHANGED <<asset_requests, clock>>
           ELSE \E failing \in CommitFailures \ {"assign"} :
                /\ now <= bound
                /\ IF failing = "resolve"
                   THEN /\ UNCHANGED <<asset_requests, clock>>
                        /\ last' = done("CommitError")
                   ELSE /\ asset_requests' = [asset_requests EXCEPT ![request_id] =
                                [request EXCEPT !.status = "DENIED",
                                                !.resolved_by_id = current_user_id,
                                                !.resolved_at = now]]
                        /\ clock' = now
                        /\ last' = done("ok")
        /\ UNCHANGED <<user_requests, rate_limit_store, served>>
        /\ UNCHANGED <<users, accounts, user_events, locations, assets, events, sess>>

\* Ids of asset requests a caller names: the rows there are and one more.
RequestIdArgs == 1..(Len(asset_requests) + 1)

\* The create payloads of the assets that are asked for: HARDWARE in stock
\* or retired, SOFTWARE in stock with a single seat.
RequestedPayloads ==
    {c \in FreshPayloads :
        \/ c.asset_type = "HARDWARE"
        \/ c.status = "IN_STOCK" /\ c.seats_total = 1 /\ c.seats_used = NULL}

\* Requests served one at a time: assets are created, any user asks for
\* one, an ADMIN or MANAGER approves (with or without an asset to assign)
\* or denies. An approval may make the commit after the last of a run.
NextRequests ==
    \/ \E payload \in RequestedPayloads : Create(MaxRequestsClock, payload)
    \/ \E current_user_id \in users, request_type \in RequestTypeArgs :
            \E asset_id \in IF request_type = "OTHER" THEN {NULL}
                            ELSE {NULL} \cup AssetIdArgs,
               described \in IF request_type = "NEW_ASSET" THEN BOOLEAN ELSE {FALSE} :
                CreateAssetRequest(current_user_id, request_type, asset_id, described)
    \/ \E request_id \in RequestIdArgs, assign_asset_id \in {NULL} \cup AssetIdArgs,
          current_user_id \in users :
            ApproveAssetRequest(MaxRequestsClock + 1, request_id, assign_asset_id,
                                current_user_id)
    \/ \E request_id \in RequestIdArgs, current_user_id \in users :
            DenyAssetRequest(MaxRequestsClock, request_id, current_user_id)

SpecRequests == Init /\ [][NextRequests]_vars

\* -------------------------------------------- user requests (the handlers)
\* UserRequest(...) in create_user_request: status PENDING, not resolved.
UserRequest(requested_email, requested_role, requester_id, target_admin_id) ==
    [requested_email |-> requested_email, requested_role |-> requested_role,
     requester_id |-> requester_id, target_admin_id |-> target_admin_id,
     status |-> "PENDING", resolved_at |-> NULL]

\* POST /user-requests (create_user_request), called by an active user: 403
\* unless MANAGER, 400 unless the target is a user with role ADMIN; the row
\* is committed.
CreateUserRequest(current_user_id, target_admin_id, requested_email, requested_role) ==
    LET arg == [current_user_id |-> current_user_id, target_admin_id |-> target_admin_id]
        result == IF accounts[current_user_id].role # "MANAGER" THEN "ForbiddenError"
                  ELSE IF target_admin_id \notin users THEN "ValidationError"
                  ELSE IF accounts[target_admin_id].role # "ADMIN" THEN "ValidationError"
                  ELSE "ok"
    IN  /\ require_roles(current_user_id, UserRole)
        /\ IF result = "ok"
           THEN /\ Len(user_requests) < MaxUserRequests
                /\ user_requests' = Append(user_requests,
                        UserRequest(requested_email, requested_role,
                                    current_user_id, target_admin_id))
           ELSE UNCHANGED user_requests
        /\ last' = Finished(0, "create_user_request", NULL, arg, NoAsset,
                            Len(events), result)
        /\ UNCHANGED <<asset_requests, rate_limit_store, served>>
        /\ UNCHANGED <<users, accounts, user_events, locations, assets, events, clock, sess>>

\* Mutant: the users table takes a second row with the same email.
email_taken_never(db_accounts, email) ==
    FALSE

\* The unique index on users.email: db.flush() of the new User raises
\* IntegrityError when a row has the email.
email_taken(db_accounts, email) ==
    \E u \in DOMAIN db_accounts : db_accounts[u].email = email

\* What approve_request and deny_request check before they write: 403
\* unless the caller is an ADMIN, 404 for a missing request, 403 unless the
\* caller is its target_admin_id, 400 unless it is PENDING.
resolvable(request, current_user_id) ==
    IF accounts[current_user_id].role # "ADMIN" THEN "ForbiddenError"
    ELSE IF request = NoAsset THEN "NotFoundError"
    ELSE IF request.target_admin_id # current_user_id THEN "NotAssignedError"
    ELSE IF request.status # "PENDING" THEN "NotPendingError"
    ELSE "ok"

\* POST /user-requests/{id}/approve (approve_request), called by an active
\* user: the checks above; then the new User (requested email and role,
\* active, in no organization) is flushed, a duplicate email rolls back with
\* a 400; else the request gets status APPROVED and resolved_at, and both
\* are committed.
ApproveRequest(bound, request_id, current_user_id) ==
    LET arg == [request_id |-> request_id, current_user_id |-> current_user_id]
        request == Get(user_requests, request_id)
        refused == resolvable(request, current_user_id)
        result == IF refused # "ok" THEN refused
                  ELSE IF email_taken(accounts, request.requested_email)
                  THEN "DuplicateKeyError"
                  ELSE "ok"
        new_user == [organization_id |-> NULL, role |-> request.requested_role,
                     is_active |-> TRUE, email |-> request.requested_email]
        now == clock + 1
    IN  /\ require_roles(current_user_id, UserRole)
        /\ IF result = "ok"
           THEN /\ now <= bound
                /\ accounts' = Append(accounts, new_user)
                /\ users' = users \cup {Len(accounts) + 1}
                /\ user_requests' = [user_requests EXCEPT ![request_id] =
                        [request EXCEPT !.status = "APPROVED", !.resolved_at = now]]
                /\ clock' = now
           ELSE UNCHANGED <<accounts, users, user_requests, clock>>
        /\ last' = Finished(0, "approve_request", NULL, arg, request, Len(events), result)
        /\ UNCHANGED <<asset_requests, rate_limit_store, served>>
        /\ UNCHANGED <<user_events, locations, assets, events, sess>>

\* POST /user-requests/{id}/deny (deny_request), called by an active user:
\* the same checks; then status DENIED and resolved_at are committed.
DenyRequest(bound, request_id, current_user_id) ==
    LET arg == [request_id |-> request_id, current_user_id |-> current_user_id]
        request == Get(user_requests, request_id)
        result == resolvable(request, current_user_id)
        now == clock + 1
    IN  /\ require_roles(current_user_id, UserRole)
        /\ IF result = "ok"
           THEN /\ now <= bound
                /\ user_requests' = [user_requests EXCEPT ![request_id] =
                        [request EXCEPT !.status = "DENIED", !.resolved_at = now]]
                /\ clock' = now
           ELSE UNCHANGED <<user_requests, clock>>
        /\ last' = Finished(0, "deny_request", NULL, arg, request, Len(events), result)
        /\ UNCHANGED <<asset_requests, rate_limit_store, served>>
        /\ UNCHANGED <<users, accounts, user_events, locations, assets, events, sess>>

\* The email addresses asked for: one that a user has and one that none
\* has.
EmailArgs == {1, NumUsers + 1}

\* The roles asked for: one that may resolve requests, one that may not.
RequestedRoles == {"ADMIN", "EMPLOYEE"}

\* Requests served one at a time: an ADMIN makes MANAGERs and ADMINs of the
\* first users, a MANAGER asks an ADMIN for a new user, ADMINs approve or
\* deny. Every commit of a run resolves a request.
NextUserRequests ==
    \/ \E current_user_id \in users, new_role \in {"ADMIN", "MANAGER"} :
            \E user_id \in {u \in 1..NumUsers : accounts[u].role # "ADMIN"} :
                ChangeUserRole(user_id, current_user_id, new_role)
    \/ \E current_user_id \in users, target_admin_id \in users,
          requested_email \in EmailArgs, requested_role \in RequestedRoles :
            CreateUserRequest(current_user_id, target_admin_id,
                              requested_email, requested_role)
    \/ \E request_id \in 1..(Len(user_requests) + 1), current_user_id \in users :
            ApproveRequest(MaxUserRequests, request_id, current_user_id)
    \/ \E request_id \in 1..(Len(user_requests) + 1), current_user_id \in users :
            DenyRequest(MaxUserRequests, request_id, current_user_id)

SpecUserRequests == Init /\ [][NextUserRequests]_vars

\* ------------------------------------------------------------ asset views
\* ORDER BY id DESC.
Descending(ids) ==
    CHOOSE s \in [1..Cardinality(ids) -> ids] : \A i, j \in DOMAIN s : i < j => s[i] > s[j]

\* Mutant: the EMPLOYEE filter is left out.
list_assets_any_role(db_assets, db_accounts, status, current_user_id, limit, offset) ==
    LET current_user == db_accounts[current_user_id]
        selected == {id \in DOMAIN db_assets :
                        /\ IF current_user.organization_id # NULL
                           THEN db_assets[id].organization_id = current_user.organization_id
                           ELSE db_assets[id].organization_id = NULL
                        /\ status # NoneStr => db_assets[id].status = status}
        rows == Descending(selected)
    IN  IF limit # NULL
        THEN SubSeq(rows, offset + 1, IF offset + limit < Len(rows) THEN offset + limit ELSE Len(rows))
        ELSE rows

\* crud.list_assets: the ids of the rows SELECTed, newest id first: the
\* caller's organization scope (or no organization), the status asked for
\* if any, for an EMPLOYEE only the rows assigned to them, and the
\* OFFSET / LIMIT slice when a limit is given.
list_assets(db_assets, db_accounts, status, current_user_id, limit, offset) ==
    LET current_user == db_accounts[current_user_id]
        selected == {id \in DOMAIN db_assets :
                        /\ IF current_user.organization_id # NULL
                           THEN db_assets[id].organization_id = current_user.organization_id
                           ELSE db_assets[id].organization_id = NULL
                        /\ status # NoneStr => db_assets[id].status = status
                        /\ current_user.role = "EMPLOYEE"
                                => db_assets[id].assigned_to_user_id = current_user_id}
        rows == Descending(selected)
    IN  IF limit # NULL
        THEN SubSeq(rows, offset + 1, IF offset + limit < Len(rows) THEN offset + limit ELSE Len(rows))
        ELSE rows

\* GET /assets (routers/assets.py list_assets), called by an active user.
ListAssets(current_user_id, status, limit, offset) ==
    LET arg == [current_user_id |-> current_user_id, status |-> status,
                limit |-> limit, offset |-> offset]
        rows == list_assets(assets, accounts, status, current_user_id, limit, offset)
    IN  /\ current_user_id \in users
        /\ accounts[current_user_id].is_active
        /\ last' = Finished(0, "list_assets", NULL, arg, NoAsset, Len(events),
                            Response(200, rows))
        /\ UNCHANGED <<asset_requests, user_requests, rate_limit_store, served>>
        /\ UNCHANGED <<users, accounts, user_events, locations, assets, events, clock, sess>>

\* GET /assets/{asset_id} (routers/assets.py get_asset), called by an
\* active user: 404 for a missing asset, 403 for an EMPLOYEE the asset is
\* not assigned to, else the row.
GetAsset(asset_id, current_user_id) ==
    LET asset == Get(assets, asset_id)
        answer == IF asset = NoAsset THEN Response(404, NoAsset)
                  ELSE IF accounts[current_user_id].role = "EMPLOYEE"
                           /\ asset.assigned_to_user_id # current_user_id
                       THEN Response(403, NoAsset)
                       ELSE Response(200, asset)
    IN  /\ current_user_id \in users
        /\ accounts[current_user_id].is_active
        /\ last' = Finished(0, "get_asset", asset_id, current_user_id, asset,
                            Len(events), answer)
        /\ UNCHANGED <<asset_requests, user_requests, rate_limit_store, served>>
        /\ UNCHANGED <<users, accounts, user_events, locations, assets, events, clock, sess>>

\* Hardware in stock under either tag, at no location.
ViewPayloads ==
    {c \in CatalogPayloads : /\ c.asset_type = "HARDWARE"
                             /\ c.status = "IN_STOCK"
                             /\ c.location_id = NULL}

StatusArgs == {NoneStr, "IN_STOCK", "ASSIGNED"}
LimitArgs  == {NULL, 1}
OffsetArgs == {0, 1}
CatalogIdArgs == CatalogIds \cup {Cardinality(CatalogIds) + 1}

\* Requests served one at a time: assets are created in the first
\* organization or in none and assigned, an ADMIN makes accounts EMPLOYEEs,
\* and every active account calls the three views.
NextViews ==
    \/ \E payload \in ViewPayloads, organization_id \in OrgArgs :
            CreateAsset(CatalogIds, MaxViewsClock, payload, organization_id)
    \/ \E asset_id \in CatalogIds, user_id \in users :
            Assign(MaxViewsClock, asset_id, user_id)
    \/ \E user_id \in users, current_user_id \in users :
            ChangeUserRole(user_id, current_user_id, "EMPLOYEE")
    \/ \E current_user_id \in users, status \in StatusArgs,
          limit \in LimitArgs, offset \in OffsetArgs :
            ListAssets(current_user_id, status, limit, offset)
    \/ \E asset_id \in CatalogIdArgs, current_user_id \in users :
            GetAsset(asset_id, current_user_id)
    \/ \E asset_id \in CatalogIdArgs, current_user_id \in users :
            ListAssetEvents(asset_id, current_user_id)

SpecViews == Init /\ [][NextViews]_vars

\* ------------------------------------------------------------ rate limit
\* main.py rate_limit_middleware. time() is the clock, which Tick advances;
\* the middleware body has no await between reading and writing
\* _rate_limit_store, so it runs as one step of the event loop.
ClientIps == {"10.0.0.1", "unknown"}
Paths == {"/health", "/assets"}

\* Mutant: the window is renewed only after more than its length.
rate_limit_late_reset(store, client_ip, now) ==
    LET got == IF client_ip \in DOMAIN store THEN store[client_ip] ELSE <<0, now>>
        expired == now - got[2] > RATE_LIMIT_WINDOW_SECONDS
        count == (IF expired THEN 0 ELSE got[1]) + 1
        window_start == IF expired THEN now ELSE got[2]
    IN  <<count, window_start>>

\* The entry written for client_ip by a counted request at time now:
\* _rate_limit_store.get(client_ip, (0, now)), a fresh window when
\* now - window_start >= RATE_LIMIT_WINDOW_SECONDS, then count += 1.
rate_limit(store, client_ip, now) ==
    LET got == IF client_ip \in DOMAIN store THEN store[client_ip] ELSE <<0, now>>
        expired == now - got[2] >= RATE_LIMIT_WINDOW_SECONDS
        count == (IF expired THEN 0 ELSE got[1]) + 1
        window_start == IF expired THEN now ELSE got[2]
    IN  <<count, window_start>>

\* One request through the middleware; served is the access log: 429 from
\* the middleware, 200 for a request handed to call_next.
RateLimitMiddleware(client_ip, path) ==
    LET now == clock
        entry == rate_limit(rate_limit_store, client_ip, now)
        status == IF path # "/health" /\ entry[1] > RATE_LIMIT_REQUESTS THEN 429 ELSE 200
    IN  /\ Len(served) < MaxServed
        /\ rate_limit_store' =
                IF path = "/health" THEN rate_limit_store
                ELSE [ip \in DOMAIN rate_limit_store \cup {client_ip} |->
                        IF ip = client_ip THEN entry ELSE rate_limit_store[ip]]
        /\ served' = Append(served, [client_ip |-> client_ip, path |-> path,
                                     now |-> now, status |-> status])
        /\ UNCHANGED <<asset_requests, user_requests>>
        /\ UNCHANGED <<users, accounts, user_events, locations, assets, events, clock, sess, last>>

\* time() moves on.
Tick ==
    /\ clock < MaxTime
    /\ clock' = clock + 1
    /\ UNCHANGED <<asset_requests, user_requests, rate_limit_store, served>>
    /\ UNCHANGED <<users, accounts, user_events, locations, assets, events, sess, last>>

\* Requests of two clients, to /health and to another path, as time passes.
NextRateLimit ==
    \/ Tick
    \/ \E client_ip \in ClientIps, path \in Paths : RateLimitMiddleware(client_ip, path)

SpecRateLimit == Init /\ [][NextRateLimit]_vars

\* ================================================================ claims
\* The row of the last call's asset now, and what the call appended.
Post == Get(assets, last.asset_id)
NewEvents == SubSeq(events, last.nev + 1, Len(events))
NothingChanged == Post = last.pre /\ Len(events) = last.nev /\ clock = last.clk
Logged(ev) == [ev EXCEPT !.timestamp = clock]
EventTypes == [i \in 1..Len(events) |-> events[i].event_type]
CountEvents(asset_id, event_type) ==
    Cardinality({i \in 1..Len(events) :
        events[i].asset_id = asset_id /\ events[i].event_type = event_type})

CalledOn(op, asset_type) ==
    /\ last.op = op
    /\ last.pre # NoAsset
    /\ last.pre.asset_type = asset_type

SeatBounds(a) ==
    /\ a.seats_used # NULL
    /\ 0 <= a.seats_used
    /\ a.seats_used <= a.seats_total

\* C1: for a SOFTWARE asset with seats_total set (0 included) and
\* 0 <= seats_used <= seats_total before an assign_asset or return_asset
\* call, 0 <= seats_used <= seats_total holds after the call, whether it
\* succeeded or failed.
C1_SeatBoundsPreserved ==
    ((CalledOn("assign", "SOFTWARE") \/ CalledOn("return", "SOFTWARE"))
        /\ last.pre.seats_total # NULL /\ SeatBounds(last.pre))
    => SeatBounds(Post)

\* C2: two interleaved assign_asset calls on a SOFTWARE asset with seats to
\* give out (seats_total >= 1, created with no seat in use): the committed
\* seats_used never exceeds seats_total, and it equals the committed ASSIGN
\* events minus the committed RETURN events (no lost update, at most as many
\* successes as free seats).
C2_NoLostUpdate ==
    \A id \in DOMAIN assets :
        (assets[id].asset_type = "SOFTWARE" /\ assets[id].seats_total # NULL
            /\ assets[id].seats_total >= 1)
        => /\ OrZero(assets[id].seats_used) <= assets[id].seats_total
           /\ OrZero(assets[id].seats_used) =
                CountEvents(id, "ASSIGN") - CountEvents(id, "RETURN")

\* C3 as stated: assign_asset on a HARDWARE asset whose assigned_to_user_id
\* is set fails with ConflictError for every existing target user, the
\* current assignee included, and changes neither the row nor the log.
C3_AlwaysConflict ==
    (CalledOn("assign", "HARDWARE") /\ last.pre.assigned_to_user_id # NULL
        /\ last.arg \in users)
    => (last.result = "ConflictError" /\ NothingChanged)

\* C3 amended: assign_asset on a HARDWARE asset whose assigned_to_user_id is
\* set always fails and changes neither the row nor the log, for every
\* target user; the error is InvalidTransitionError when the asset is
\* RETIRED, else NotFoundError when the target user does not exist, else
\* ConflictError.
C3_AssignedHardwareNeverReassigned ==
    (CalledOn("assign", "HARDWARE") /\ last.pre.assigned_to_user_id # NULL)
    => /\ NothingChanged
       /\ last.result =
            IF last.pre.status = "RETIRED" THEN "InvalidTransitionError"
            ELSE IF last.arg \notin users THEN "NotFoundError"
            ELSE "ConflictError"

\* C3 witness: an assign to the current assignee was refused with ConflictError.
C3_Witness ==
    /\ CalledOn("assign", "HARDWARE")
    /\ last.pre.assigned_to_user_id # NULL
    /\ last.arg = last.pre.assigned_to_user_id
    /\ last.result = "ConflictError"

\* C4: interleaved assign_asset calls on a HARDWARE asset: the log never
\* holds two ASSIGN events of the asset with no RETURN event between them,
\* and an assigned asset is assigned to the to_user_id of its last ASSIGN.
C4_SerializedAssign ==
    \A id \in DOMAIN assets :
        assets[id].asset_type = "HARDWARE"
        => /\ \A i, j \in 1..Len(events) :
                (i < j /\ events[i].asset_id = id /\ events[j].asset_id = id
                    /\ events[i].event_type = "ASSIGN" /\ events[j].event_type = "ASSIGN")
                => \E k \in (i + 1)..(j - 1) :
                        events[k].asset_id = id /\ events[k].event_type = "RETURN"
           /\ assets[id].assigned_to_user_id # NULL
                => \E i \in 1..Len(events) :
                        /\ events[i].asset_id = id /\ events[i].event_type = "ASSIGN"
                        /\ events[i].to_user_id = assets[id].assigned_to_user_id
                        /\ \A j \in (i + 1)..Len(events) : events[j].event_type # "ASSIGN"

\* C5: assign_asset on a non-RETIRED SOFTWARE asset for an existing user
\* fails with CapacityError exactly when seats_total is set and
\* seats_used >= seats_total; otherwise seats_used grows by exactly 1, the
\* status becomes ASSIGNED and exactly one ASSIGN event to the user is
\* appended.
C5_SoftwareAssign ==
    (CalledOn("assign", "SOFTWARE") /\ last.pre.status # "RETIRED" /\ last.arg \in users)
    => IF last.pre.seats_total # NULL /\ OrZero(last.pre.seats_used) >= last.pre.seats_total
       THEN last.result = "CapacityError" /\ NothingChanged
       ELSE /\ last.result = "ok"
            /\ Post.seats_used = OrZero(last.pre.seats_used) + 1
            /\ Post.status = "ASSIGNED"
            /\ NewEvents = <<Logged(AssetEvent(last.asset_id, "ASSIGN", NULL, last.arg, NULL, NULL))>>

\* C6: return_asset on a SOFTWARE asset fails with CapacityError, row and
\* log unchanged, when seats_used <= 0; otherwise seats_used drops by
\* exactly 1, the status becomes IN_STOCK if and only if the new seats_used
\* is 0 and is otherwise left as it was, and exactly one RETURN event with
\* from_user_id = the user_id given is appended. With seats_total = 2 and no
\* seat in use at creation: two assigns give ASSIGNED / 2, a third assign
\* fails, one return gives ASSIGNED / 1, a second IN_STOCK / 0, a third fails.
C6_SoftwareReturn ==
    /\ CalledOn("return", "SOFTWARE")
        => IF OrZero(last.pre.seats_used) <= 0
           THEN last.result = "CapacityError" /\ NothingChanged
           ELSE /\ last.result = "ok"
                /\ Post.seats_used = last.pre.seats_used - 1
                /\ Post.status = IF Post.seats_used = 0 THEN "IN_STOCK" ELSE last.pre.status
                /\ NewEvents = <<Logged(AssetEvent(last.asset_id, "RETURN", last.arg, NULL, NULL, NULL))>>
    /\ \A id \in DOMAIN assets :
        (/\ assets[id].asset_type = "SOFTWARE" /\ assets[id].seats_total = 2
         /\ OrZero(assets[id].seats_used) = CountEvents(id, "ASSIGN") - CountEvents(id, "RETURN"))
        => /\ EventTypes = <<"CREATE", "ASSIGN", "ASSIGN">>
                => /\ assets[id].status = "ASSIGNED" /\ assets[id].seats_used = 2
                   /\ (last.op = "assign" /\ last.asset_id = id /\ last.arg \in users
                            /\ last.nev = 3)
                        => last.result = "CapacityError"
           /\ EventTypes = <<"CREATE", "ASSIGN", "ASSIGN", "RETURN">>
                => assets[id].status = "ASSIGNED" /\ assets[id].seats_used = 1
           /\ EventTypes = <<"CREATE", "ASSIGN", "ASSIGN", "RETURN", "RETURN">>
                => /\ assets[id].status = "IN_STOCK" /\ assets[id].seats_used = 0
                   /\ (last.op = "return" /\ last.asset_id = id /\ last.nev = 5)
                        => last.result = "CapacityError"

\* C6 witness: the end of Scenario A, the third return refused.
C6_Witness ==
    /\ CalledOn("return", "SOFTWARE")
    /\ last.pre.seats_total = 2
    /\ EventTypes = <<"CREATE", "ASSIGN", "ASSIGN", "RETURN", "RETURN">>
    /\ last.nev = 5
    /\ last.result = "CapacityError"

\* C7: assign_asset fails with NotFoundError when the asset does not exist,
\* with InvalidTransitionError when the asset exists and is RETIRED
\* (HARDWARE or SOFTWARE), and with NotFoundError when the asset exists, is
\* not RETIRED and the target user does not exist; in each case no asset
\* field changes and no event is appended.
C7_AssignPreconditions ==
    last.op = "assign"
    => /\ last.pre = NoAsset
            => last.result = "NotFoundError" /\ NothingChanged
       /\ (last.pre # NoAsset /\ last.pre.status = "RETIRED")
            => last.result = "InvalidTransitionError" /\ NothingChanged
       /\ (last.pre # NoAsset /\ last.pre.status # "RETIRED" /\ last.arg \notin users)
            => last.result = "NotFoundError" /\ NothingChanged

\* C7 witness: an assign of a RETIRED SOFTWARE asset to an existing user was refused.
C7_Witness ==
    /\ CalledOn("assign", "SOFTWARE")
    /\ last.pre.status = "RETIRED"
    /\ last.arg \in users
    /\ last.result = "InvalidTransitionError"

\* C8: a successful return_asset on a HARDWARE asset sets assigned_to_user_id
\* to null and status to IN_STOCK and appends exactly one RETURN event whose
\* from_user_id is the assignee before the call; an assign_asset to an
\* existing user directly after a return succeeds and assigns that user.
C8_HardwareReturn ==
    /\ (CalledOn("return", "HARDWARE") /\ last.result = "ok")
        => /\ Post.assigned_to_user_id = NULL
           /\ Post.status = "IN_STOCK"
           /\ NewEvents = <<Logged(AssetEvent(last.asset_id, "RETURN",
                                last.pre.assigned_to_user_id, NULL, NULL, NULL))>>
    /\ (CalledOn("assign", "HARDWARE") /\ last.arg \in users
            /\ last.nev >= 1 /\ events[last.nev].event_type = "RETURN")
        => /\ last.result = "ok"
           /\ Post.assigned_to_user_id = last.arg
           /\ Post.status = "ASSIGNED"

\* C8 witness: the end of Scenario B: assigned to user 1, returned, assigned to user 2.
C8_Witness ==
    /\ CalledOn("assign", "HARDWARE")
    /\ last.result = "ok"
    /\ EventTypes = <<"CREATE", "ASSIGN", "RETURN", "ASSIGN">>
    /\ events[2].to_user_id = 1
    /\ events[3].from_user_id = 1
    /\ events[4].to_user_id = 2
    /\ Post.assigned_to_user_id = 2

\* C9: return_asset on a HARDWARE asset with no assignee succeeds, leaves
\* assigned_to_user_id null and status IN_STOCK, and appends one RETURN event
\* with from_user_id null; a return directly after a return leaves
\* assigned_to_user_id and status exactly as the first return left them.
C9_HardwareReturnIdempotent ==
    (CalledOn("return", "HARDWARE") /\ last.pre.assigned_to_user_id = NULL)
    => /\ last.result = "ok"
       /\ Post.assigned_to_user_id = NULL
       /\ Post.status = "IN_STOCK"
       /\ NewEvents = <<Logged(AssetEvent(last.asset_id, "RETURN", NULL, NULL, NULL, NULL))>>
       /\ (last.nev >= 1 /\ events[last.nev].event_type = "RETURN")
            => /\ Post.assigned_to_user_id = last.pre.assigned_to_user_id
               /\ Post.status = last.pre.status

\* C9 witness: an assigned asset returned twice in a row.
C9_Witness ==
    /\ CalledOn("return", "HARDWARE")
    /\ last.result = "ok"
    /\ EventTypes = <<"CREATE", "ASSIGN", "RETURN", "RETURN">>
    /\ events[3].from_user_id # NULL
    /\ events[4].from_user_id = NULL

\* C10: when every field present in the payload equals the asset's current
\* value, update_asset appends no event, commits nothing and leaves every
\* field of the asset, updated_at included, unchanged.
C10_UpdateNotVacuouslyAudited ==
    (last.op = "update" /\ last.pre # NoAsset
        /\ \A k \in DOMAIN last.arg : last.arg[k] = last.pre[k])
    => /\ last.result = "ok"
       /\ Post = last.pre
       /\ Len(events) = last.nev
       /\ clock = last.clk

\* C10 witness: an update whose two fields both equal the row.
C10_Witness ==
    /\ last.op = "update"
    /\ last.pre # NoAsset
    /\ DOMAIN last.arg = {"status", "location_id"}
    /\ \A k \in DOMAIN last.arg : last.arg[k] = last.pre[k]
    /\ last.result = "ok"

\* ------------------------------------------------------- update, create
\* The event types the last call appended, and how many of one type.
NewEventTypes == [i \in 1..Len(NewEvents) |-> NewEvents[i].event_type]
CountNew(event_type) ==
    Cardinality({i \in 1..Len(NewEvents) : NewEvents[i].event_type = event_type})

\* The fields of the payload of the last update whose value differs from
\* the row the call read.
Differing == {k \in DOMAIN last.arg : last.arg[k] # last.pre[k]}

UpdateCalled == last.op = "update" /\ last.pre # NoAsset

\* The columns other than location_id and updated_at the last call changed.
OtherChanged ==
    {f \in DOMAIN last.pre \ {"location_id", "updated_at"} : Post[f] # last.pre[f]}

\* C11: an update_asset call whose payload changes only location_id, from
\* L1 to L2 (L1 # L2, each a location or null), appends exactly one MOVE
\* event with from_location_id = L1 and to_location_id = L2 and no UPDATE
\* event.
C11_LocationChangeIsMove ==
    (UpdateCalled /\ Differing = {"location_id"}
        /\ last.arg.location_id \in locations \cup {NULL})
    => /\ last.result = "ok"
       /\ NewEvents = <<Logged(AssetEvent(last.asset_id, "MOVE", NULL, NULL,
                                last.pre.location_id, last.arg.location_id))>>
       /\ CountNew("UPDATE") = 0
       /\ Post.location_id = last.arg.location_id

\* C11 witness: an asset was moved from a location to no location.
C11_Witness ==
    /\ UpdateCalled
    /\ last.arg = ("location_id" :> NULL)
    /\ last.pre.location_id \in locations
    /\ last.result = "ok"
    /\ NewEventTypes = <<"MOVE">>

\* C12: one update_asset call appends exactly (1 if location_id changed else
\* 0) MOVE events and (1 if any other field changed else 0) UPDATE events,
\* however many fields changed, and nothing else: never two UPDATE events,
\* never more than two events.
C12_UpdateBatchesChanges ==
    UpdateCalled
    => /\ CountNew("MOVE") = IF Post.location_id # last.pre.location_id THEN 1 ELSE 0
       /\ CountNew("UPDATE") = IF OtherChanged # {} THEN 1 ELSE 0
       /\ Len(NewEvents) = CountNew("MOVE") + CountNew("UPDATE")
       /\ Len(NewEvents) <= 2
       /\ last.result = "ok"
            => /\ CountNew("MOVE") = IF "location_id" \in Differing THEN 1 ELSE 0
               /\ CountNew("UPDATE") = IF Differing \ {"location_id"} # {} THEN 1 ELSE 0

\* C12 witness: one update changed the location and two other fields.
C12_Witness ==
    /\ UpdateCalled
    /\ last.result = "ok"
    /\ Cardinality(OtherChanged) >= 2
    /\ NewEventTypes = <<"MOVE", "UPDATE">>

\* C13: a successful update_asset leaves every field that is not in the
\* payload as it was and sets every field in the payload to the payload's
\* value, an explicit null included.
C13_PatchSemantics ==
    (UpdateCalled /\ last.result = "ok")
    => \A f \in DOMAIN last.pre \ {"updated_at"} :
            Post[f] = IF f \in DOMAIN last.arg THEN last.arg[f] ELSE last.pre[f]

\* C13 witness: a payload of status and condition was applied to an asset
\* that kept its location, or an explicit null cleared seats_total.
C13_Witness ==
    /\ UpdateCalled
    /\ last.result = "ok"
    /\ \/ /\ DOMAIN last.arg = {"status", "condition"}
          /\ last.pre.location_id \in locations
          /\ Post.location_id = last.pre.location_id
          /\ Post.status = "IN_REPAIR"
       \/ /\ last.arg = ("seats_total" :> NULL)
          /\ last.pre.seats_total # NULL
          /\ Post.seats_total = NULL

C15_OneCreateEvent ==
    /\ \A id \in DOMAIN assets : CountEvents(id, "CREATE") = 1
    /\ last.op # "create" => CountNew("CREATE") = 0
    /\ (last.op = "create" /\ last.result = "ok")
            => NewEvents = <<Logged(AssetEvent(last.asset_id, "CREATE", NULL, NULL, NULL, NULL))>>

\* C15 witness: an asset was created, then updated, then assigned.
C15_Witness ==
    /\ last.op = "assign"
    /\ last.result = "ok"
    /\ Len(events) >= 3
    /\ events[1].event_type = "CREATE"
    /\ events[2].event_type \in {"MOVE", "UPDATE"}
    /\ events[Len(events)].event_type = "ASSIGN"

\* The assets the last create_asset call found in the table.
Before == [i \in DOMAIN assets \ {last.asset_id} |-> assets[i]]

\* C16: creating an asset with an asset_tag that another asset has fails
\* with DuplicateKeyError, creating no asset and no event, when that asset
\* is in the same organization scope, and succeeds when every asset with the
\* tag is in a different organization scope.
C16_DuplicateTagScoped ==
    (/\ last.op = "create"
     /\ \E i \in DOMAIN Before : Before[i].asset_tag = last.arg.payload.asset_tag
     /\ last.arg.payload.location_id \in locations \cup {NULL})
    => IF existing_tag(Before, last.arg.payload.asset_tag, last.arg.organization_id)
       THEN last.result = "DuplicateKeyError" /\ NothingChanged
       ELSE /\ last.result = "ok"
            /\ Post # NoAsset
            /\ Post.asset_tag = last.arg.payload.asset_tag
            /\ Post.organization_id = last.arg.organization_id

\* C17: a HARDWARE asset has subscription, seats_total and seats_used
\* unpopulated and a SOFTWARE asset has category and assigned_to_user_id
\* unpopulated, in every state create and update reach.
C17_KindExclusiveFields ==
    \A id \in DOMAIN assets :
        /\ assets[id].asset_type = "HARDWARE"
            => /\ assets[id].subscription = NoneStr
               /\ assets[id].seats_total = NULL
               /\ assets[id].seats_used = NULL
        /\ assets[id].asset_type = "SOFTWARE"
            => /\ assets[id].category = NoneStr
               /\ assets[id].assigned_to_user_id = NULL

\* C18: no create or update commits a SOFTWARE asset with seats_used < 0 or
\* with seats_total set and seats_used > seats_total.
C18_SeatBoundsInvariant ==
    \A id \in DOMAIN assets :
        assets[id].asset_type = "SOFTWARE"
        => /\ OrZero(assets[id].seats_used) >= 0
           /\ assets[id].seats_total # NULL
                => OrZero(assets[id].seats_used) <= assets[id].seats_total

\* C19: a call that fails (its own error, or a commit the database rejects)
\* leaves the asset and the log as they were; a call that changed the asset
\* appended its event(s), and the events of a call are committed with its
\* change of the asset, at the same time, for the asset of the call.
C19_MutationAndAuditAtomic ==
    /\ last.result # "ok" => NothingChanged
    /\ Post # last.pre => NewEvents # <<>>
    /\ NewEvents # <<>>
        => /\ last.result = "ok"
           /\ clock = last.clk + 1
           /\ Post # NoAsset
           /\ Post # last.pre => Post.updated_at = clock
           /\ \A i \in 1..Len(NewEvents) :
                NewEvents[i].asset_id = last.asset_id /\ NewEvents[i].timestamp = clock

\* C19 witness: the commit of an update that moves the asset to a location
\* that does not exist was rejected.
C19_Witness ==
    /\ UpdateCalled
    /\ "location_id" \in DOMAIN last.arg
    /\ last.arg.location_id \notin locations \cup {NULL}
    /\ last.result = "IntegrityError"

\* C20: a committed AssetEvent is never modified or deleted: the log of an
\* earlier state is a prefix of the log of every later state.
C20_LogAppendOnly ==
    [][/\ Len(events') >= Len(events)
       /\ SubSeq(events', 1, Len(events)) = events]_vars

\* C20 witness: the log holds events of three different commits.
C20_Witness ==
    /\ Len(events) >= 3
    /\ events[1].event_type = "CREATE"
    /\ events[1].timestamp < events[2].timestamp
    /\ events[2].timestamp < events[3].timestamp

\* ------------------------------------------------------- users and assets
\* The columns whose changes the audit trail has to show.
AuditedFields == {"assigned_to_user_id", "status", "seats_used"}

\* C21: every committed change to an asset's assigned_to_user_id, status or
\* seats_used, by any operation (assign, return, update, user deactivation,
\* leaving an organization), comes with at least one new AssetEvent of that
\* asset in the same step.
C21_EveryChangeAudited ==
    [][\A id \in DOMAIN assets :
            (id \in DOMAIN assets'
                /\ \E f \in AuditedFields : assets'[id][f] # assets[id][f])
            => \E i \in (Len(events) + 1)..Len(events') : events'[i].asset_id = id]_vars


\* ---------------------------------------------------------- read paths
\* The seats of an asset the log says a user holds.
SeatsHeld(asset_id, user_id) ==
    Cardinality({i \in 1..Len(events) :
        events[i].asset_id = asset_id /\ events[i].event_type = "ASSIGN"
            /\ events[i].to_user_id = user_id})
    - Cardinality({i \in 1..Len(events) :
        events[i].asset_id = asset_id /\ events[i].event_type = "RETURN"
            /\ events[i].from_user_id = user_id})

\* C22: get_user_assets(U) contains a SOFTWARE asset exactly when
\* count(ASSIGN events of the asset with to_user_id = U) minus count(RETURN
\* events of the asset with from_user_id = U) is greater than 0, and a
\* HARDWARE asset exactly when its assigned_to_user_id = U.
C22_UserAssetsProjection ==
    (last.op = "get_user_assets" /\ last.arg \in users)
    => /\ last.result.status = 200
       /\ \A id \in DOMAIN assets :
            id \in last.result.body
            <=> IF assets[id].asset_type = "SOFTWARE"
                THEN SeatsHeld(id, last.arg) > 0
                ELSE assets[id].assigned_to_user_id = last.arg

\* C22 witness: a user who was given a seat and gave it back is asked for;
\* the SOFTWARE asset is not listed.
C22_Witness ==
    /\ last.op = "get_user_assets"
    /\ last.arg \in users
    /\ \E id \in DOMAIN assets :
        /\ assets[id].asset_type = "SOFTWARE"
        /\ \E i \in 1..Len(events) :
                events[i].event_type = "RETURN" /\ events[i].from_user_id = last.arg
        /\ SeatsHeld(id, last.arg) = 0
        /\ id \notin last.result.body

\* C23: the read paths change no asset, user or event, and two
\* list_asset_events calls for one asset with no mutation between them
\* return identical results.
C23_ReadPathsPure ==
    [][/\ last'.op \in {"list_asset_events", "get_user_assets"}
            => UNCHANGED <<users, accounts, user_events, assets, events>>
       /\ (/\ last.op = "list_asset_events"
           /\ last'.op = "list_asset_events"
           /\ last'.asset_id = last.asset_id
           /\ last'.arg = last.arg)
            => last'.result = last.result]_vars

\* C24: list_asset_events returns exactly the events of the given asset,
\* newest first by timestamp, the events of one timestamp in id order (the
\* same direction for every pair of them).
C24_EventOrdering ==
    (last.op = "list_asset_events" /\ last.result.status = 200)
    => LET rows == last.result.body
           ids == {i \in 1..Len(events) : events[i].asset_id = last.asset_id}
           ties == {p \in (DOMAIN rows) \X (DOMAIN rows) :
                        p[1] < p[2] /\ rows[p[1]].timestamp = rows[p[2]].timestamp}
       IN  /\ Len(rows) = Cardinality(ids)
           /\ {rows[k].id : k \in DOMAIN rows} = ids
           /\ \A k \in DOMAIN rows : rows[k] = [id |-> rows[k].id] @@ events[rows[k].id]
           /\ \A i, j \in DOMAIN rows : i < j => rows[i].timestamp >= rows[j].timestamp
           /\ \/ \A p \in ties : rows[p[1]].id < rows[p[2]].id
              \/ \A p \in ties : rows[p[1]].id > rows[p[2]].id

\* ------------------------------------------------------- audit summary
\* The last call was the audit summary; the time it was asked for and who
\* asked.
SummaryCalled == last.op = "get_audit_summary"
AskedAt == last.arg.now
CallerOrg == accounts[last.arg.current_user_id].organization_id

\* The assets the router's summary is about (no organization), split as the
\* claim splits them.
Scoped == {id \in DOMAIN assets : assets[id].organization_id = NULL}
FullyUsed(a) == a.seats_total # NULL /\ OrZero(a.seats_used) >= a.seats_total
LiveSoftware == {id \in Scoped : assets[id].asset_type = "SOFTWARE" /\ assets[id].status # "RETIRED"}
Hardware(status) ==
    {id \in Scoped : assets[id].asset_type = "HARDWARE" /\ assets[id].status = status}

\* C25: the summary counts a non-RETIRED SOFTWARE asset as assigned exactly
\* when seats_total is set and seats_used >= seats_total, and as in stock
\* exactly when seats_total is null or seats_used < seats_total; a RETIRED
\* asset is counted only as retired; so every non-RETIRED SOFTWARE asset is
\* in exactly one of assigned_assets / in_stock_assets, and assigned +
\* in_stock + retired never exceeds total_assets.
C25_EffectiveSoftwareStatus ==
    SummaryCalled
    => LET r == last.result
           full == {id \in LiveSoftware : FullyUsed(assets[id])}
           free == {id \in LiveSoftware :
                        assets[id].seats_total = NULL
                            \/ OrZero(assets[id].seats_used) < assets[id].seats_total}
       IN  /\ r.assigned_assets = Cardinality(Hardware("ASSIGNED")) + Cardinality(full)
           /\ r.in_stock_assets = Cardinality(Hardware("IN_STOCK")) + Cardinality(free)
           /\ r.retired_assets = Cardinality({id \in Scoped : assets[id].status = "RETIRED"})
           /\ full \cap free = {}
           /\ full \cup free = LiveSoftware
           /\ r.assigned_assets + r.in_stock_assets + r.retired_assets <= r.total_assets

\* C25 witness: a SOFTWARE asset whose stored status is ASSIGNED and that
\* has a seat left is counted as in stock.
C25_Witness ==
    /\ SummaryCalled
    /\ \E id \in LiveSoftware :
        /\ assets[id].status = "ASSIGNED"
        /\ assets[id].seats_total = 2
        /\ assets[id].seats_used = 1
    /\ last.result.in_stock_assets = 1
    /\ last.result.assigned_assets = 0

\* The tables with only the rows that belong to an organization.
OnlyOrg(rows, organization_id) ==
    [id \in {k \in DOMAIN rows : rows[k].organization_id = organization_id} |-> rows[id]]

\* C26: the summary a caller in organization O gets depends only on the
\* users, assets and events of O: it is the summary of the state that holds
\* the rows of O and nothing of any other organization or of no
\* organization.
C26_SummaryScoped ==
    SummaryCalled
    => LET mine == OnlyOrg(accounts, CallerOrg)
           my_assets == OnlyOrg(assets, CallerOrg)
           my_events == SelectSeq(events, LAMBDA e : e.asset_id \in DOMAIN my_assets)
           my_user_events == SelectSeq(user_events, LAMBDA e : e.target_user_id \in DOMAIN mine)
       IN  last.result = get_audit_summary(mine, my_assets, my_events, my_user_events,
                                           NULL, AskedAt)

\* The events the router's summary is about, from a time on.
AssetEventsSince(t) ==
    Cardinality({i \in 1..Len(events) :
        events[i].asset_id \in Scoped /\ events[i].timestamp >= t})
UserEventsSince(t) ==
    Cardinality({i \in 1..Len(user_events) :
        /\ user_events[i].target_user_id \in users
        /\ accounts[user_events[i].target_user_id].organization_id = NULL
        /\ user_events[i].timestamp >= t})
Midnight == AskedAt - (AskedAt % DayTicks)
Week == WeekDays * DayTicks

\* C27 as stated: events_today counts the in-scope events at or after the
\* current UTC midnight, events_week those within the 7 days before now,
\* and events_today <= events_week; for user events and for asset events.
C27_TrailingWeek ==
    SummaryCalled
    => /\ last.result.asset_events_today = AssetEventsSince(Midnight)
       /\ last.result.user_events_today = UserEventsSince(Midnight)
       /\ last.result.asset_events_week = AssetEventsSince(AskedAt - Week)
       /\ last.result.user_events_week = UserEventsSince(AskedAt - Week)
       /\ last.result.asset_events_today <= last.result.asset_events_week
       /\ last.result.user_events_today <= last.result.user_events_week

\* C27 amended: events_week counts the in-scope events at or after the UTC
\* midnight 7 days before today's (so up to 8 days back); the rest as
\* stated.
C27_WeekFromMidnight ==
    SummaryCalled
    => /\ last.result.asset_events_today = AssetEventsSince(Midnight)
       /\ last.result.user_events_today = UserEventsSince(Midnight)
       /\ last.result.asset_events_week = AssetEventsSince(Midnight - Week)
       /\ last.result.user_events_week = UserEventsSince(Midnight - Week)
       /\ last.result.asset_events_today <= last.result.asset_events_week
       /\ last.result.user_events_today <= last.result.user_events_week

\* C27 witness: a user event older than 7 days, not older than 7 days
\* before midnight, is counted in the week and not in the day; the asset
\* events, older still, are counted in neither.
C27_Witness ==
    /\ SummaryCalled
    /\ Midnight < AskedAt
    /\ \E i \in 1..Len(user_events) :
        /\ user_events[i].timestamp >= Midnight - Week
        /\ user_events[i].timestamp < AskedAt - Week
    /\ last.result.user_events_week = 1
    /\ last.result.user_events_today = 0
    /\ Len(events) >= 1
    /\ last.result.asset_events_week = 0

\* ------------------------------------------------- ownership and seats
\* C28 as stated: in every state reachable by create, assign, return and
\* update, a HARDWARE asset has status ASSIGNED if and only if its
\* assigned_to_user_id is non-null.
C28_StatusMirrorsOwnership ==
    \A id \in DOMAIN assets :
        assets[id].asset_type = "HARDWARE"
        => (assets[id].status = "ASSIGNED" <=> assets[id].assigned_to_user_id # NULL)

\* C28 amended: in every state reachable by create, assign and return,
\* served one at a time, a HARDWARE asset with an assignee has status
\* ASSIGNED, and one with status ASSIGNED has an assignee unless it was
\* created with that status and has been neither assigned nor returned
\* since.
C28_MirrorWithoutUpdate ==
    \A id \in DOMAIN assets :
        assets[id].asset_type = "HARDWARE"
        => /\ assets[id].assigned_to_user_id # NULL => assets[id].status = "ASSIGNED"
           /\ (assets[id].status = "ASSIGNED" /\ assets[id].assigned_to_user_id = NULL)
                => CountEvents(id, "ASSIGN") + CountEvents(id, "RETURN") = 0

\* C28 witness: an asset created with status ASSIGNED and no assignee was
\* assigned.
C28_Witness ==
    /\ CalledOn("assign", "HARDWARE")
    /\ last.result = "ok"
    /\ last.pre.status = "ASSIGNED"
    /\ last.pre.assigned_to_user_id = NULL
    /\ Post.status = "ASSIGNED"
    /\ Post.assigned_to_user_id = last.arg

\* C29: for every SOFTWARE asset created with seats_used 0 or null and
\* changed only by assign_asset and return_asset, seats_used equals the
\* number of its ASSIGN events minus the number of its RETURN events, in
\* every reachable state.
C29_CounterMatchesLog ==
    \A id \in DOMAIN assets :
        assets[id].asset_type = "SOFTWARE"
        => OrZero(assets[id].seats_used)
                = CountEvents(id, "ASSIGN") - CountEvents(id, "RETURN")

\* The sum over the users of the seats of an asset the log says they hold.
SeatsHeldByUsers(asset_id) ==
    Cardinality({i \in 1..Len(events) :
        events[i].asset_id = asset_id /\ events[i].event_type = "ASSIGN"
            /\ events[i].to_user_id \in users})
    - Cardinality({i \in 1..Len(events) :
        events[i].asset_id = asset_id /\ events[i].event_type = "RETURN"
            /\ events[i].from_user_id \in users})

\* C30: after any sequence of assign_asset and return_asset calls, for
\* every SOFTWARE asset and every user U, count(ASSIGN to U) minus
\* count(RETURN from U) is not negative, and the sum of it over the users
\* is the asset's seats_used.
C30_ProjectionMatchesCounter ==
    \A id \in DOMAIN assets :
        assets[id].asset_type = "SOFTWARE"
        => /\ \A u \in users : SeatsHeld(id, u) >= 0
           /\ SeatsHeldByUsers(id) = OrZero(assets[id].seats_used)

\* C31: once an asset's status is RETIRED, no assign_asset or return_asset
\* call, on HARDWARE or SOFTWARE, changes its status.
C31_RetiredStays ==
    (last.op \in {"assign", "return"} /\ last.pre # NoAsset
        /\ last.pre.status = "RETIRED")
    => Post.status = "RETIRED"

\* C32: for every non-RETIRED SOFTWARE asset (any seats_total, null and 0
\* included, any seats_used >= 0), assign_asset to an existing user succeeds
\* if and only if get_audit_summary counts the asset as in stock, if and
\* only if get_available_assets lists it.
C32_CapacityPredicatesAgree ==
    \A id \in DOMAIN assets :
        (assets[id].asset_type = "SOFTWARE" /\ assets[id].status # "RETIRED")
        => \A u \in users :
            /\ assign_asset(assets, users, id, u).result = "ok"
                    <=> in_stock_case(assets[id])
            /\ in_stock_case(assets[id])
                    <=> id \in get_available_assets(assets, "SOFTWARE")

\* C33: in every state reachable by assign_asset, return_asset,
\* deactivate_user and activate_user, the assigned_to_user_id of every
\* HARDWARE asset is null or the id of an existing user whose is_active is
\* true.
C33_HolderIsActive ==
    \A id \in DOMAIN assets :
        (assets[id].asset_type = "HARDWARE" /\ assets[id].assigned_to_user_id # NULL)
        => /\ assets[id].assigned_to_user_id \in users
           /\ accounts[assets[id].assigned_to_user_id].is_active

\* C35: from a state with an active ADMIN, no sequence of deactivate_user,
\* activate_user and change_user_role calls, each by an authenticated active
\* ADMIN and served one at a time, reaches a state with no active ADMIN.
C35_AdminRemains ==
    \E u \in users : accounts[u].is_active /\ accounts[u].role = "ADMIN"

\* C35 witness: an ADMIN who was given the role by another deactivated that
\* other ADMIN, and is the only active ADMIN left.
C35_Witness ==
    /\ last.op = "deactivate_user"
    /\ last.result = "ok"
    /\ accounts[last.arg.user_id].role = "ADMIN"
    /\ ~accounts[last.arg.user_id].is_active
    /\ Cardinality({u \in users : accounts[u].is_active /\ accounts[u].role = "ADMIN"}) = 1

\* C34: when deactivate_user(U) returns successfully, U.is_active is false,
\* no HARDWARE asset has assigned_to_user_id = U, for every SOFTWARE asset
\* count(ASSIGN to U) minus count(RETURN from U) is 0, and the asset's
\* seats_used has decreased by exactly the number of seats U held before the
\* call.
C34_DeactivationReleases ==
    [][(clock' # clock /\ last'.op = "deactivate_user" /\ last'.result = "ok")
        => LET U == last'.arg.user_id IN
           /\ ~accounts'[U].is_active
           /\ \A id \in DOMAIN assets' :
                assets'[id].asset_type = "HARDWARE" => assets'[id].assigned_to_user_id # U
           /\ \A id \in DOMAIN assets' :
                assets'[id].asset_type = "SOFTWARE"
                => /\ seat_assigns(events', id, U) - seat_returns(events', id, U) = 0
                   /\ OrZero(assets'[id].seats_used)
                        = OrZero(assets[id].seats_used)
                            - (seat_assigns(events, id, U) - seat_returns(events, id, U))]_vars

C37_ApprovalAllOrNothing ==
    [][(last'.op = "approve_asset_request" /\ last'.asset_id # NULL
            /\ last'.pre # NoAsset /\ last'.pre.status = "PENDING"
            /\ last'.result # "ForbiddenError")
        => LET request_id == last'.arg.request_id
               asset_id == last'.asset_id
           IN  \/ /\ last'.result = "ok"
                  /\ asset_requests'[request_id].status = "APPROVED"
                  /\ Len(events') = Len(events) + 1
                  /\ events'[Len(events')].event_type = "ASSIGN"
                  /\ events'[Len(events')].asset_id = asset_id
                  /\ events'[Len(events')].to_user_id = last'.pre.requester_id
                  /\ assets'[asset_id].asset_type = "HARDWARE"
                        => assets'[asset_id].assigned_to_user_id = last'.pre.requester_id
               \/ /\ last'.result # "ok"
                  /\ asset_requests'[request_id].status = "PENDING"
                  /\ assets' = assets
                  /\ events' = events]_vars

\* C38: approve_request and deny_request succeed only for a PENDING request
\* when the caller is an ADMIN whose id equals target_admin_id; a resolved
\* request is not resolved again; a successful approval creates exactly one
\* new active user with the requested email and role and marks the request
\* APPROVED; if the email already exists no user is created and the request
\* remains PENDING.
C38_UserRequestResolution ==
    /\ []((last.op \in {"approve_request", "deny_request"} /\ last.result = "ok")
            => /\ last.pre # NoAsset
               /\ last.pre.status = "PENDING"
               /\ last.pre.target_admin_id = last.arg.current_user_id
               /\ accounts[last.arg.current_user_id].role = "ADMIN")
    /\ [][/\ \A r \in DOMAIN user_requests :
                user_requests[r].status # "PENDING" => user_requests'[r] = user_requests[r]
          /\ (last'.op = "approve_request" /\ clock' # clock)
                => /\ last'.result = "ok"
                   /\ Len(accounts') = Len(accounts) + 1
                   /\ SubSeq(accounts', 1, Len(accounts)) = accounts
                   /\ accounts'[Len(accounts')].is_active
                   /\ accounts'[Len(accounts')].email = last'.pre.requested_email
                   /\ accounts'[Len(accounts')].role = last'.pre.requested_role
                   /\ user_requests'[last'.arg.request_id].status = "APPROVED"
          /\ (last'.op = "approve_request" /\ last'.pre # NoAsset
                /\ \E u \in DOMAIN accounts :
                        accounts[u].email = last'.pre.requested_email)
                => /\ last'.result # "ok"
                   /\ accounts' = accounts
                   /\ user_requests' = user_requests
          /\ (last'.op \notin {"approve_request", "change_user_role"})
                => accounts' = accounts]_vars

\* C38 witness: the approval of a request for an email that a user already
\* has was refused for its target ADMIN, and the request is still PENDING.
C38_Witness ==
    /\ last.op = "approve_request"
    /\ last.result = "DuplicateKeyError"
    /\ last.pre.target_admin_id = last.arg.current_user_id
    /\ user_requests[last.arg.request_id].status = "PENDING"
    /\ Len(accounts) = NumUsers

\* C39: for a caller with role EMPLOYEE, list_assets returns only assets
\* whose assigned_to_user_id is the caller's id, and get_asset and
\* get_asset_events answer 403 for every existing asset whose
\* assigned_to_user_id differs from the caller's id; a caller with another
\* role gets every existing asset from get_asset and get_asset_events, and
\* from an unfiltered, unlimited list_assets every asset of their
\* organization scope, whoever it is assigned to.
C39_EmployeeViews ==
    /\ last.op = "list_assets" =>
            LET caller == last.arg.current_user_id
                body == last.result.body
            IN  /\ accounts[caller].role = "EMPLOYEE" =>
                        \A i \in DOMAIN body :
                            /\ body[i] \in DOMAIN assets
                            /\ assets[body[i]].assigned_to_user_id = caller
                /\ (/\ accounts[caller].role # "EMPLOYEE"
                    /\ last.arg.status = NoneStr
                    /\ last.arg.limit = NULL) =>
                        \A id \in DOMAIN assets :
                            assets[id].organization_id = accounts[caller].organization_id
                                => \E i \in DOMAIN body : body[i] = id
    /\ (last.op \in {"get_asset", "list_asset_events"} /\ last.asset_id \in DOMAIN assets) =>
            LET caller == last.arg IN
            IF accounts[caller].role = "EMPLOYEE"
               /\ assets[last.asset_id].assigned_to_user_id # caller
            THEN last.result.status = 403
            ELSE last.result.status = 200

\* An EMPLOYEE holding one asset lists exactly that one while another asset
\* of their scope exists, and is refused the other one.
C39_Witness ==
    /\ last.op = "get_asset"
    /\ accounts[last.arg].role = "EMPLOYEE"
    /\ last.asset_id \in DOMAIN assets
    /\ assets[last.asset_id].assigned_to_user_id # last.arg
    /\ assets[last.asset_id].organization_id = accounts[last.arg].organization_id
    /\ last.result.status = 403
    /\ \E id \in DOMAIN assets : assets[id].assigned_to_user_id = last.arg

\* The counted requests of a client, in the order served.
C40_Counted(client_ip) ==
    SelectSeq(served, LAMBDA e : e.client_ip = client_ip /\ e.path # "/health")

\* The window the k-th counted request of a client falls in, and its place
\* in that window: the first request opens a window, and so does a request
\* made when the open window's length has elapsed.
RECURSIVE C40_Window(_, _)
C40_Window(s, k) ==
    IF k = 1 THEN [start |-> s[1].now, n |-> 1]
    ELSE LET prev == C40_Window(s, k - 1) IN
         IF s[k].now - prev.start >= RATE_LIMIT_WINDOW_SECONDS
         THEN [start |-> s[k].now, n |-> 1]
         ELSE [start |-> prev.start, n |-> prev.n + 1]

\* C40: for each client, in the window that opens at the client's first
\* counted request (and in each window opened by a request made once the
\* previous window's length has elapsed) the first RATE_LIMIT_REQUESTS
\* requests to paths other than /health are passed on and every further
\* one gets 429; requests to /health are always passed on and open or fill
\* no window; the store holds the count and start of each client's window.
C40_FixedWindow ==
    /\ \A i \in DOMAIN served : served[i].path = "/health" => served[i].status = 200
    /\ \A client_ip \in ClientIps :
            LET s == C40_Counted(client_ip) IN
            /\ \A k \in DOMAIN s :
                    s[k].status = IF C40_Window(s, k).n > RATE_LIMIT_REQUESTS THEN 429 ELSE 200
            /\ \A k \in DOMAIN s :
                    Cardinality({j \in DOMAIN s :
                                    /\ s[j].status = 200
                                    /\ s[j].now >= C40_Window(s, k).start
                                    /\ s[j].now < C40_Window(s, k).start
                                                    + RATE_LIMIT_WINDOW_SECONDS})
                        <= RATE_LIMIT_REQUESTS
            /\ IF s = <<>> THEN client_ip \notin DOMAIN rate_limit_store
               ELSE /\ client_ip \in DOMAIN rate_limit_store
                    /\ rate_limit_store[client_ip]
                            = <<C40_Window(s, Len(s)).n, C40_Window(s, Len(s)).start>>

\* A client is refused in a full window and passed again by the request it
\* makes exactly when the window's length has elapsed.
C40_Witness ==
    \E client_ip \in ClientIps :
        LET s == C40_Counted(client_ip) IN
        /\ Len(s) >= 2
        /\ s[Len(s) - 1].status = 429
        /\ s[Len(s)].status = 200
        /\ s[Len(s)].now = s[1].now + RATE_LIMIT_WINDOW_SECONDS
        /\ \E i \in DOMAIN served : served[i].path = "/health" /\ served[i].client_ip = client_ip

====
